---- MODULE Spec2Model ----
(***************************************************************************)
(* Churn-rate predictor (go-churn-agent): the /predict pipeline of         *)
(* api.PredictHandler on top of pkg/appcore.                               *)
(*                                                                         *)
(* Strings the code inspects character by character (feedback text,        *)
(* sentiment labels) are sequences of one-character strings; strings the   *)
(* code only copies or compares (messages, reasons, topics) are TLA+       *)
(* strings.  Floats are integers in hundredths: 0.8 is 80.                 *)
(***************************************************************************)
EXTENDS Integers, Sequences, FiniteSets, TLC

\* ------------------------------------------------------------------------
\* Bounds of the model
\* ------------------------------------------------------------------------

\* number of requests the process serves (they run concurrently)
NumRequests == 2

Requests == 1..NumRequests

\* ------------------------------------------------------------------------
\* strings.ToLower / strings.ToUpper / strings.Contains / strings.TrimSpace
\* ------------------------------------------------------------------------

\* unicode.ToLower and unicode.ToUpper follow the simple case mappings of
\* the Unicode character database (version 14.0).  UpperLetters holds the
\* capital letters whose small letter has them as its capital and
\* LowerLetters, at the same positions, these small letters.  A character
\* that cannot be written in a string of the model is named by its code
\* point ("U+0100").
UpperLetters ==
  <<"A","B","C","D","E","F","G","H","I","J","K","L","M","N","O","P","Q","R",
    "S","T","U","V","W","X","Y","Z","À","Á","Â","Ã","Ä","Å","Æ","Ç","È","É",
    "Ê","Ë","Ì","Í","Î","Ï","Ð","Ñ","Ò","Ó","Ô","Õ","Ö","Ø","Ù","Ú","Û","Ü",
    "Ý","Þ","U+0100","U+0102","U+0104","U+0106","U+0108","U+010A","U+010C",
    "U+010E","U+0110","U+0112","U+0114","U+0116","U+0118","U+011A","U+011C",
    "U+011E","U+0120","U+0122","U+0124","U+0126","U+0128","U+012A","U+012C",
    "U+012E","U+0132","U+0134","U+0136","U+0139","U+013B","U+013D","U+013F",
    "U+0141","U+0143","U+0145","U+0147","U+014A","U+014C","U+014E","U+0150",
    "U+0152","U+0154","U+0156","U+0158","U+015A","U+015C","U+015E","U+0160",
    "U+0162","U+0164","U+0166","U+0168","U+016A","U+016C","U+016E","U+0170",
    "U+0172","U+0174","U+0176","U+0178","U+0179","U+017B","U+017D","Ɓ","Ƃ",
    "Ƅ","Ɔ","Ƈ","Ɖ","Ɗ","Ƌ","Ǝ","Ə","Ɛ","Ƒ","Ɠ","Ɣ","Ɩ","Ɨ","Ƙ","Ɯ","Ɲ","Ɵ",
    "Ơ","Ƣ","Ƥ","Ʀ","Ƨ","Ʃ","Ƭ","Ʈ","Ư","Ʊ","Ʋ","Ƴ","Ƶ","Ʒ","Ƹ","Ƽ","Ǆ","Ǉ",
    "Ǌ","Ǎ","Ǐ","Ǒ","Ǔ","Ǖ","Ǘ","Ǚ","Ǜ","Ǟ","Ǡ","Ǣ","Ǥ","Ǧ","Ǩ","Ǫ","Ǭ","Ǯ",
    "Ǳ","Ǵ","Ƕ","Ƿ","Ǹ","Ǻ","Ǽ","Ǿ","U+0200","U+0202","U+0204","U+0206",
    "U+0208","U+020A","U+020C","U+020E","U+0210","U+0212","U+0214","U+0216",
    "U+0218","U+021A","U+021C","U+021E","U+0220","U+0222","U+0224","U+0226",
    "U+0228","U+022A","U+022C","U+022E","U+0230","U+0232","U+023A","U+023B",
    "U+023D","U+023E","U+0241","U+0243","U+0244","U+0245","U+0246","U+0248",
    "U+024A","U+024C","U+024E","U+0370","U+0372","U+0376","U+037F","Ά","Έ",
    "Ή","Ί","Ό","Ύ","Ώ","Α","Β","Γ","Δ","Ε","Ζ","Η","Θ","Ι","Κ","Λ","Μ","Ν",
    "Ξ","Ο","Π","Ρ","Σ","Τ","Υ","Φ","Χ","Ψ","Ω","Ϊ","Ϋ","Ϗ","Ϙ","Ϛ","Ϝ","Ϟ",
    "Ϡ","Ϣ","Ϥ","Ϧ","Ϩ","Ϫ","Ϭ","Ϯ","Ϸ","Ϲ","Ϻ","Ͻ","Ͼ","Ͽ","U+0400","U+0401",
    "U+0402","U+0403","U+0404","U+0405","U+0406","U+0407","U+0408","U+0409",
    "U+040A","U+040B","U+040C","U+040D","U+040E","U+040F","U+0410","U+0411",
    "U+0412","U+0413","U+0414","U+0415","U+0416","U+0417","U+0418","U+0419",
    "U+041A","U+041B","U+041C","U+041D","U+041E","U+041F","U+0420","U+0421",
    "U+0422","U+0423","U+0424","U+0425","U+0426","U+0427","U+0428","U+0429",
    "U+042A","U+042B","U+042C","U+042D","U+042E","U+042F","U+0460","U+0462",
    "U+0464","U+0466","U+0468","U+046A","U+046C","U+046E","U+0470","U+0472",
    "U+0474","U+0476","U+0478","U+047A","U+047C","U+047E","Ҁ","Ҋ","Ҍ","Ҏ","Ґ",
    "Ғ","Ҕ","Җ","Ҙ","Қ","Ҝ","Ҟ","Ҡ","Ң","Ҥ","Ҧ","Ҩ","Ҫ","Ҭ","Ү","Ұ","Ҳ","Ҵ",
    "Ҷ","Ҹ","Һ","Ҽ","Ҿ","Ӏ","Ӂ","Ӄ","Ӆ","Ӈ","Ӊ","Ӌ","Ӎ","Ӑ","Ӓ","Ӕ","Ӗ","Ә",
    "Ӛ","Ӝ","Ӟ","Ӡ","Ӣ","Ӥ","Ӧ","Ө","Ӫ","Ӭ","Ӯ","Ӱ","Ӳ","Ӵ","Ӷ","Ӹ","Ӻ","Ӽ",
    "Ӿ","U+0500","U+0502","U+0504","U+0506","U+0508","U+050A","U+050C",
    "U+050E","U+0510","U+0512","U+0514","U+0516","U+0518","U+051A","U+051C",
    "U+051E","U+0520","U+0522","U+0524","U+0526","U+0528","U+052A","U+052C",
    "U+052E","U+0531","U+0532","U+0533","U+0534","U+0535","U+0536","U+0537",
    "U+0538","U+0539","U+053A","U+053B","U+053C","U+053D","U+053E","U+053F",
    "U+0540","U+0541","U+0542","U+0543","U+0544","U+0545","U+0546","U+0547",
    "U+0548","U+0549","U+054A","U+054B","U+054C","U+054D","U+054E","U+054F",
    "U+0550","U+0551","U+0552","U+0553","U+0554","U+0555","U+0556","Ⴀ","Ⴁ",
    "Ⴂ","Ⴃ","Ⴄ","Ⴅ","Ⴆ","Ⴇ","Ⴈ","Ⴉ","Ⴊ","Ⴋ","Ⴌ","Ⴍ","Ⴎ","Ⴏ","Ⴐ","Ⴑ","Ⴒ","Ⴓ",
    "Ⴔ","Ⴕ","Ⴖ","Ⴗ","Ⴘ","Ⴙ","Ⴚ","Ⴛ","Ⴜ","Ⴝ","Ⴞ","Ⴟ","Ⴠ","Ⴡ","Ⴢ","Ⴣ","Ⴤ","Ⴥ",
    "Ⴧ","Ⴭ","Ꭰ","Ꭱ","Ꭲ","Ꭳ","Ꭴ","Ꭵ","Ꭶ","Ꭷ","Ꭸ","Ꭹ","Ꭺ","Ꭻ","Ꭼ","Ꭽ","Ꭾ","Ꭿ",
    "Ꮀ","Ꮁ","Ꮂ","Ꮃ","Ꮄ","Ꮅ","Ꮆ","Ꮇ","Ꮈ","Ꮉ","Ꮊ","Ꮋ","Ꮌ","Ꮍ","Ꮎ","Ꮏ","Ꮐ","Ꮑ",
    "Ꮒ","Ꮓ","Ꮔ","Ꮕ","Ꮖ","Ꮗ","Ꮘ","Ꮙ","Ꮚ","Ꮛ","Ꮜ","Ꮝ","Ꮞ","Ꮟ","Ꮠ","Ꮡ","Ꮢ","Ꮣ",
    "Ꮤ","Ꮥ","Ꮦ","Ꮧ","Ꮨ","Ꮩ","Ꮪ","Ꮫ","Ꮬ","Ꮭ","Ꮮ","Ꮯ","Ꮰ","Ꮱ","Ꮲ","Ꮳ","Ꮴ","Ꮵ",
    "Ꮶ","Ꮷ","Ꮸ","Ꮹ","Ꮺ","Ꮻ","Ꮼ","Ꮽ","Ꮾ","Ꮿ","Ᏸ","Ᏹ","Ᏺ","Ᏻ","Ᏼ","Ᏽ","Ა","Ბ",
    "Გ","Დ","Ე","Ვ","Ზ","Თ","Ი","Კ","Ლ","Მ","Ნ","Ო","Პ","Ჟ","Რ","Ს","Ტ","Უ",
    "Ფ","Ქ","Ღ","Ყ","Შ","Ჩ","Ც","Ძ","Წ","Ჭ","Ხ","Ჯ","Ჰ","Ჱ","Ჲ","Ჳ","Ჴ","Ჵ",
    "Ჶ","Ჷ","Ჸ","Ჹ","Ჺ","Ჽ","Ჾ","Ჿ","U+1E00","U+1E02","U+1E04","U+1E06",
    "U+1E08","U+1E0A","U+1E0C","U+1E0E","U+1E10","U+1E12","U+1E14","U+1E16",
    "U+1E18","U+1E1A","U+1E1C","U+1E1E","U+1E20","U+1E22","U+1E24","U+1E26",
    "U+1E28","U+1E2A","U+1E2C","U+1E2E","U+1E30","U+1E32","U+1E34","U+1E36",
    "U+1E38","U+1E3A","U+1E3C","U+1E3E","U+1E40","U+1E42","U+1E44","U+1E46",
    "U+1E48","U+1E4A","U+1E4C","U+1E4E","U+1E50","U+1E52","U+1E54","U+1E56",
    "U+1E58","U+1E5A","U+1E5C","U+1E5E","U+1E60","U+1E62","U+1E64","U+1E66",
    "U+1E68","U+1E6A","U+1E6C","U+1E6E","U+1E70","U+1E72","U+1E74","U+1E76",
    "U+1E78","U+1E7A","U+1E7C","U+1E7E","Ẁ","Ẃ","Ẅ","Ẇ","Ẉ","Ẋ","Ẍ","Ẏ","Ẑ",
    "Ẓ","Ẕ","Ạ","Ả","Ấ","Ầ","Ẩ","Ẫ","Ậ","Ắ","Ằ","Ẳ","Ẵ","Ặ","Ẹ","Ẻ","Ẽ","Ế",
    "Ề","Ể","Ễ","Ệ","Ỉ","Ị","Ọ","Ỏ","Ố","Ồ","Ổ","Ỗ","Ộ","Ớ","Ờ","Ở","Ỡ","Ợ",
    "Ụ","Ủ","Ứ","Ừ","Ử","Ữ","Ự","Ỳ","Ỵ","Ỷ","Ỹ","Ỻ","Ỽ","Ỿ","U+1F08","U+1F09",
    "U+1F0A","U+1F0B","U+1F0C","U+1F0D","U+1F0E","U+1F0F","U+1F18","U+1F19",
    "U+1F1A","U+1F1B","U+1F1C","U+1F1D","U+1F28","U+1F29","U+1F2A","U+1F2B",
    "U+1F2C","U+1F2D","U+1F2E","U+1F2F","U+1F38","U+1F39","U+1F3A","U+1F3B",
    "U+1F3C","U+1F3D","U+1F3E","U+1F3F","U+1F48","U+1F49","U+1F4A","U+1F4B",
    "U+1F4C","U+1F4D","U+1F59","U+1F5B","U+1F5D","U+1F5F","U+1F68","U+1F69",
    "U+1F6A","U+1F6B","U+1F6C","U+1F6D","U+1F6E","U+1F6F","ᾈ","ᾉ","ᾊ","ᾋ","ᾌ",
    "ᾍ","ᾎ","ᾏ","ᾘ","ᾙ","ᾚ","ᾛ","ᾜ","ᾝ","ᾞ","ᾟ","ᾨ","ᾩ","ᾪ","ᾫ","ᾬ","ᾭ","ᾮ",
    "ᾯ","Ᾰ","Ᾱ","Ὰ","Ά","ᾼ","Ὲ","Έ","Ὴ","Ή","ῌ","Ῐ","Ῑ","Ὶ","Ί","Ῠ","Ῡ","Ὺ",
    "Ύ","Ῥ","Ὸ","Ό","Ὼ","Ώ","ῼ","U+2132","U+2160","U+2161","U+2162","U+2163",
    "U+2164","U+2165","U+2166","U+2167","U+2168","U+2169","U+216A","U+216B",
    "U+216C","U+216D","U+216E","U+216F","Ↄ","Ⓐ","Ⓑ","Ⓒ","Ⓓ","Ⓔ","Ⓕ","Ⓖ","Ⓗ",
    "Ⓘ","Ⓙ","Ⓚ","Ⓛ","Ⓜ","Ⓝ","Ⓞ","Ⓟ","Ⓠ","Ⓡ","Ⓢ","Ⓣ","Ⓤ","Ⓥ","Ⓦ","Ⓧ","Ⓨ","Ⓩ",
    "U+2C00","U+2C01","U+2C02","U+2C03","U+2C04","U+2C05","U+2C06","U+2C07",
    "U+2C08","U+2C09","U+2C0A","U+2C0B","U+2C0C","U+2C0D","U+2C0E","U+2C0F",
    "U+2C10","U+2C11","U+2C12","U+2C13","U+2C14","U+2C15","U+2C16","U+2C17",
    "U+2C18","U+2C19","U+2C1A","U+2C1B","U+2C1C","U+2C1D","U+2C1E","U+2C1F",
    "U+2C20","U+2C21","U+2C22","U+2C23","U+2C24","U+2C25","U+2C26","U+2C27",
    "U+2C28","U+2C29","U+2C2A","U+2C2B","U+2C2C","U+2C2D","U+2C2E","U+2C2F",
    "U+2C60","U+2C62","U+2C63","U+2C64","U+2C67","U+2C69","U+2C6B","U+2C6D",
    "U+2C6E","U+2C6F","U+2C70","U+2C72","U+2C75","U+2C7E","U+2C7F","Ⲁ","Ⲃ",
    "Ⲅ","Ⲇ","Ⲉ","Ⲋ","Ⲍ","Ⲏ","Ⲑ","Ⲓ","Ⲕ","Ⲗ","Ⲙ","Ⲛ","Ⲝ","Ⲟ","Ⲡ","Ⲣ","Ⲥ","Ⲧ",
    "Ⲩ","Ⲫ","Ⲭ","Ⲯ","Ⲱ","Ⲳ","Ⲵ","Ⲷ","Ⲹ","Ⲻ","Ⲽ","Ⲿ","Ⳁ","Ⳃ","Ⳅ","Ⳇ","Ⳉ","Ⳋ",
    "Ⳍ","Ⳏ","Ⳑ","Ⳓ","Ⳕ","Ⳗ","Ⳙ","Ⳛ","Ⳝ","Ⳟ","Ⳡ","Ⳣ","Ⳬ","Ⳮ","Ⳳ","U+A640",
    "U+A642","U+A644","U+A646","U+A648","U+A64A","U+A64C","U+A64E","U+A650",
    "U+A652","U+A654","U+A656","U+A658","U+A65A","U+A65C","U+A65E","U+A660",
    "U+A662","U+A664","U+A666","U+A668","U+A66A","U+A66C","Ꚁ","Ꚃ","Ꚅ","Ꚇ","Ꚉ",
    "Ꚋ","Ꚍ","Ꚏ","Ꚑ","Ꚓ","Ꚕ","Ꚗ","Ꚙ","Ꚛ","U+A722","U+A724","U+A726","U+A728",
    "U+A72A","U+A72C","U+A72E","U+A732","U+A734","U+A736","U+A738","U+A73A",
    "U+A73C","U+A73E","U+A740","U+A742","U+A744","U+A746","U+A748","U+A74A",
    "U+A74C","U+A74E","U+A750","U+A752","U+A754","U+A756","U+A758","U+A75A",
    "U+A75C","U+A75E","U+A760","U+A762","U+A764","U+A766","U+A768","U+A76A",
    "U+A76C","U+A76E","U+A779","U+A77B","U+A77D","U+A77E","Ꞁ","Ꞃ","Ꞅ","Ꞇ","Ꞌ",
    "Ɥ","Ꞑ","Ꞓ","Ꞗ","Ꞙ","Ꞛ","Ꞝ","Ꞟ","Ꞡ","Ꞣ","Ꞥ","Ꞧ","Ꞩ","Ɦ","Ɜ","Ɡ","Ɬ","Ɪ",
    "Ʞ","Ʇ","Ʝ","Ꭓ","Ꞵ","Ꞷ","Ꞹ","Ꞻ","Ꞽ","Ꞿ","Ꟁ","Ꟃ","Ꞔ","Ʂ","Ᶎ","Ꟈ","Ꟊ","Ꟑ",
    "Ꟗ","Ꟙ","Ꟶ","U+FF21","U+FF22","U+FF23","U+FF24","U+FF25","U+FF26",
    "U+FF27","U+FF28","U+FF29","U+FF2A","U+FF2B","U+FF2C","U+FF2D","U+FF2E",
    "U+FF2F","U+FF30","U+FF31","U+FF32","U+FF33","U+FF34","U+FF35","U+FF36",
    "U+FF37","U+FF38","U+FF39","U+FF3A","U+10400","U+10401","U+10402",
    "U+10403","U+10404","U+10405","U+10406","U+10407","U+10408","U+10409",
    "U+1040A","U+1040B","U+1040C","U+1040D","U+1040E","U+1040F","U+10410",
    "U+10411","U+10412","U+10413","U+10414","U+10415","U+10416","U+10417",
    "U+10418","U+10419","U+1041A","U+1041B","U+1041C","U+1041D","U+1041E",
    "U+1041F","U+10420","U+10421","U+10422","U+10423","U+10424","U+10425",
    "U+10426","U+10427","U+104B0","U+104B1","U+104B2","U+104B3","U+104B4",
    "U+104B5","U+104B6","U+104B7","U+104B8","U+104B9","U+104BA","U+104BB",
    "U+104BC","U+104BD","U+104BE","U+104BF","U+104C0","U+104C1","U+104C2",
    "U+104C3","U+104C4","U+104C5","U+104C6","U+104C7","U+104C8","U+104C9",
    "U+104CA","U+104CB","U+104CC","U+104CD","U+104CE","U+104CF","U+104D0",
    "U+104D1","U+104D2","U+104D3","U+10570","U+10571","U+10572","U+10573",
    "U+10574","U+10575","U+10576","U+10577","U+10578","U+10579","U+1057A",
    "U+1057C","U+1057D","U+1057E","U+1057F","U+10580","U+10581","U+10582",
    "U+10583","U+10584","U+10585","U+10586","U+10587","U+10588","U+10589",
    "U+1058A","U+1058C","U+1058D","U+1058E","U+1058F","U+10590","U+10591",
    "U+10592","U+10594","U+10595","U+10C80","U+10C81","U+10C82","U+10C83",
    "U+10C84","U+10C85","U+10C86","U+10C87","U+10C88","U+10C89","U+10C8A",
    "U+10C8B","U+10C8C","U+10C8D","U+10C8E","U+10C8F","U+10C90","U+10C91",
    "U+10C92","U+10C93","U+10C94","U+10C95","U+10C96","U+10C97","U+10C98",
    "U+10C99","U+10C9A","U+10C9B","U+10C9C","U+10C9D","U+10C9E","U+10C9F",
    "U+10CA0","U+10CA1","U+10CA2","U+10CA3","U+10CA4","U+10CA5","U+10CA6",
    "U+10CA7","U+10CA8","U+10CA9","U+10CAA","U+10CAB","U+10CAC","U+10CAD",
    "U+10CAE","U+10CAF","U+10CB0","U+10CB1","U+10CB2","U+118A0","U+118A1",
    "U+118A2","U+118A3","U+118A4","U+118A5","U+118A6","U+118A7","U+118A8",
    "U+118A9","U+118AA","U+118AB","U+118AC","U+118AD","U+118AE","U+118AF",
    "U+118B0","U+118B1","U+118B2","U+118B3","U+118B4","U+118B5","U+118B6",
    "U+118B7","U+118B8","U+118B9","U+118BA","U+118BB","U+118BC","U+118BD",
    "U+118BE","U+118BF","U+16E40","U+16E41","U+16E42","U+16E43","U+16E44",
    "U+16E45","U+16E46","U+16E47","U+16E48","U+16E49","U+16E4A","U+16E4B",
    "U+16E4C","U+16E4D","U+16E4E","U+16E4F","U+16E50","U+16E51","U+16E52",
    "U+16E53","U+16E54","U+16E55","U+16E56","U+16E57","U+16E58","U+16E59",
    "U+16E5A","U+16E5B","U+16E5C","U+16E5D","U+16E5E","U+16E5F","U+1E900",
    "U+1E901","U+1E902","U+1E903","U+1E904","U+1E905","U+1E906","U+1E907",
    "U+1E908","U+1E909","U+1E90A","U+1E90B","U+1E90C","U+1E90D","U+1E90E",
    "U+1E90F","U+1E910","U+1E911","U+1E912","U+1E913","U+1E914","U+1E915",
    "U+1E916","U+1E917","U+1E918","U+1E919","U+1E91A","U+1E91B","U+1E91C",
    "U+1E91D","U+1E91E","U+1E91F","U+1E920","U+1E921">>

LowerLetters ==
  <<"a","b","c","d","e","f","g","h","i","j","k","l","m","n","o","p","q","r",
    "s","t","u","v","w","x","y","z","à","á","â","ã","ä","å","æ","ç","è","é",
    "ê","ë","ì","í","î","ï","ð","ñ","ò","ó","ô","õ","ö","ø","ù","ú","û","ü",
    "ý","þ","U+0101","U+0103","U+0105","U+0107","U+0109","U+010B","U+010D",
    "U+010F","U+0111","U+0113","U+0115","U+0117","U+0119","U+011B","U+011D",
    "U+011F","U+0121","U+0123","U+0125","U+0127","U+0129","U+012B","U+012D",
    "U+012F","U+0133","U+0135","U+0137","U+013A","U+013C","U+013E","U+0140",
    "U+0142","U+0144","U+0146","U+0148","U+014B","U+014D","U+014F","U+0151",
    "U+0153","U+0155","U+0157","U+0159","U+015B","U+015D","U+015F","U+0161",
    "U+0163","U+0165","U+0167","U+0169","U+016B","U+016D","U+016F","U+0171",
    "U+0173","U+0175","U+0177","ÿ","U+017A","U+017C","U+017E","U+0253","ƃ",
    "ƅ","U+0254","ƈ","U+0256","U+0257","ƌ","ǝ","U+0259","U+025B","ƒ","U+0260",
    "U+0263","U+0269","U+0268","ƙ","U+026F","U+0272","U+0275","ơ","ƣ","ƥ","ʀ",
    "ƨ","ʃ","ƭ","ʈ","ư","ʊ","ʋ","ƴ","ƶ","ʒ","ƹ","ƽ","ǆ","ǉ","ǌ","ǎ","ǐ","ǒ",
    "ǔ","ǖ","ǘ","ǚ","ǜ","ǟ","ǡ","ǣ","ǥ","ǧ","ǩ","ǫ","ǭ","ǯ","ǳ","ǵ","ƕ","ƿ",
    "ǹ","ǻ","ǽ","ǿ","U+0201","U+0203","U+0205","U+0207","U+0209","U+020B",
    "U+020D","U+020F","U+0211","U+0213","U+0215","U+0217","U+0219","U+021B",
    "U+021D","U+021F","ƞ","U+0223","U+0225","U+0227","U+0229","U+022B",
    "U+022D","U+022F","U+0231","U+0233","U+2C65","U+023C","ƚ","U+2C66",
    "U+0242","ƀ","ʉ","ʌ","U+0247","U+0249","U+024B","U+024D","U+024F",
    "U+0371","U+0373","U+0377","ϳ","ά","έ","ή","ί","ό","ύ","ώ","α","β","γ",
    "δ","ε","ζ","η","θ","ι","κ","λ","μ","ν","ξ","ο","π","ρ","σ","τ","υ","φ",
    "χ","ψ","ω","ϊ","ϋ","ϗ","ϙ","ϛ","ϝ","ϟ","ϡ","ϣ","ϥ","ϧ","ϩ","ϫ","ϭ","ϯ",
    "ϸ","ϲ","ϻ","U+037B","U+037C","U+037D","U+0450","U+0451","U+0452",
    "U+0453","U+0454","U+0455","U+0456","U+0457","U+0458","U+0459","U+045A",
    "U+045B","U+045C","U+045D","U+045E","U+045F","U+0430","U+0431","U+0432",
    "U+0433","U+0434","U+0435","U+0436","U+0437","U+0438","U+0439","U+043A",
    "U+043B","U+043C","U+043D","U+043E","U+043F","U+0440","U+0441","U+0442",
    "U+0443","U+0444","U+0445","U+0446","U+0447","U+0448","U+0449","U+044A",
    "U+044B","U+044C","U+044D","U+044E","U+044F","U+0461","U+0463","U+0465",
    "U+0467","U+0469","U+046B","U+046D","U+046F","U+0471","U+0473","U+0475",
    "U+0477","U+0479","U+047B","U+047D","U+047F","ҁ","ҋ","ҍ","ҏ","ґ","ғ","ҕ",
    "җ","ҙ","қ","ҝ","ҟ","ҡ","ң","ҥ","ҧ","ҩ","ҫ","ҭ","ү","ұ","ҳ","ҵ","ҷ","ҹ",
    "һ","ҽ","ҿ","ӏ","ӂ","ӄ","ӆ","ӈ","ӊ","ӌ","ӎ","ӑ","ӓ","ӕ","ӗ","ә","ӛ","ӝ",
    "ӟ","ӡ","ӣ","ӥ","ӧ","ө","ӫ","ӭ","ӯ","ӱ","ӳ","ӵ","ӷ","ӹ","ӻ","ӽ","ӿ",
    "U+0501","U+0503","U+0505","U+0507","U+0509","U+050B","U+050D","U+050F",
    "U+0511","U+0513","U+0515","U+0517","U+0519","U+051B","U+051D","U+051F",
    "U+0521","U+0523","U+0525","U+0527","U+0529","U+052B","U+052D","U+052F",
    "U+0561","U+0562","U+0563","U+0564","U+0565","U+0566","U+0567","U+0568",
    "U+0569","U+056A","U+056B","U+056C","U+056D","U+056E","U+056F","U+0570",
    "U+0571","U+0572","U+0573","U+0574","U+0575","U+0576","U+0577","U+0578",
    "U+0579","U+057A","U+057B","U+057C","U+057D","U+057E","U+057F","ր","ց",
    "ւ","փ","ք","օ","ֆ","U+2D00","U+2D01","U+2D02","U+2D03","U+2D04","U+2D05",
    "U+2D06","U+2D07","U+2D08","U+2D09","U+2D0A","U+2D0B","U+2D0C","U+2D0D",
    "U+2D0E","U+2D0F","U+2D10","U+2D11","U+2D12","U+2D13","U+2D14","U+2D15",
    "U+2D16","U+2D17","U+2D18","U+2D19","U+2D1A","U+2D1B","U+2D1C","U+2D1D",
    "U+2D1E","U+2D1F","U+2D20","U+2D21","U+2D22","U+2D23","U+2D24","U+2D25",
    "U+2D27","U+2D2D","U+AB70","U+AB71","U+AB72","U+AB73","U+AB74","U+AB75",
    "U+AB76","U+AB77","U+AB78","U+AB79","U+AB7A","U+AB7B","U+AB7C","U+AB7D",
    "U+AB7E","U+AB7F","ꮀ","ꮁ","ꮂ","ꮃ","ꮄ","ꮅ","ꮆ","ꮇ","ꮈ","ꮉ","ꮊ","ꮋ","ꮌ","ꮍ",
    "ꮎ","ꮏ","ꮐ","ꮑ","ꮒ","ꮓ","ꮔ","ꮕ","ꮖ","ꮗ","ꮘ","ꮙ","ꮚ","ꮛ","ꮜ","ꮝ","ꮞ","ꮟ",
    "ꮠ","ꮡ","ꮢ","ꮣ","ꮤ","ꮥ","ꮦ","ꮧ","ꮨ","ꮩ","ꮪ","ꮫ","ꮬ","ꮭ","ꮮ","ꮯ","ꮰ","ꮱ",
    "ꮲ","ꮳ","ꮴ","ꮵ","ꮶ","ꮷ","ꮸ","ꮹ","ꮺ","ꮻ","ꮼ","ꮽ","ꮾ","ꮿ","ᏸ","ᏹ","ᏺ","ᏻ",
    "ᏼ","ᏽ","ა","ბ","გ","დ","ე","ვ","ზ","თ","ი","კ","ლ","მ","ნ","ო","პ","ჟ",
    "რ","ს","ტ","უ","ფ","ქ","ღ","ყ","შ","ჩ","ც","ძ","წ","ჭ","ხ","ჯ","ჰ","ჱ",
    "ჲ","ჳ","ჴ","ჵ","ჶ","ჷ","ჸ","ჹ","ჺ","ჽ","ჾ","ჿ","U+1E01","U+1E03",
    "U+1E05","U+1E07","U+1E09","U+1E0B","U+1E0D","U+1E0F","U+1E11","U+1E13",
    "U+1E15","U+1E17","U+1E19","U+1E1B","U+1E1D","U+1E1F","U+1E21","U+1E23",
    "U+1E25","U+1E27","U+1E29","U+1E2B","U+1E2D","U+1E2F","U+1E31","U+1E33",
    "U+1E35","U+1E37","U+1E39","U+1E3B","U+1E3D","U+1E3F","U+1E41","U+1E43",
    "U+1E45","U+1E47","U+1E49","U+1E4B","U+1E4D","U+1E4F","U+1E51","U+1E53",
    "U+1E55","U+1E57","U+1E59","U+1E5B","U+1E5D","U+1E5F","U+1E61","U+1E63",
    "U+1E65","U+1E67","U+1E69","U+1E6B","U+1E6D","U+1E6F","U+1E71","U+1E73",
    "U+1E75","U+1E77","U+1E79","U+1E7B","U+1E7D","U+1E7F","ẁ","ẃ","ẅ","ẇ","ẉ",
    "ẋ","ẍ","ẏ","ẑ","ẓ","ẕ","ạ","ả","ấ","ầ","ẩ","ẫ","ậ","ắ","ằ","ẳ","ẵ","ặ",
    "ẹ","ẻ","ẽ","ế","ề","ể","ễ","ệ","ỉ","ị","ọ","ỏ","ố","ồ","ổ","ỗ","ộ","ớ",
    "ờ","ở","ỡ","ợ","ụ","ủ","ứ","ừ","ử","ữ","ự","ỳ","ỵ","ỷ","ỹ","ỻ","ỽ","ỿ",
    "U+1F00","U+1F01","U+1F02","U+1F03","U+1F04","U+1F05","U+1F06","U+1F07",
    "U+1F10","U+1F11","U+1F12","U+1F13","U+1F14","U+1F15","U+1F20","U+1F21",
    "U+1F22","U+1F23","U+1F24","U+1F25","U+1F26","U+1F27","U+1F30","U+1F31",
    "U+1F32","U+1F33","U+1F34","U+1F35","U+1F36","U+1F37","U+1F40","U+1F41",
    "U+1F42","U+1F43","U+1F44","U+1F45","U+1F51","U+1F53","U+1F55","U+1F57",
    "U+1F60","U+1F61","U+1F62","U+1F63","U+1F64","U+1F65","U+1F66","U+1F67",
    "ᾀ","ᾁ","ᾂ","ᾃ","ᾄ","ᾅ","ᾆ","ᾇ","ᾐ","ᾑ","ᾒ","ᾓ","ᾔ","ᾕ","ᾖ","ᾗ","ᾠ","ᾡ",
    "ᾢ","ᾣ","ᾤ","ᾥ","ᾦ","ᾧ","ᾰ","ᾱ","U+1F70","U+1F71","ᾳ","U+1F72","U+1F73",
    "U+1F74","U+1F75","ῃ","ῐ","ῑ","U+1F76","U+1F77","ῠ","ῡ","U+1F7A","U+1F7B",
    "ῥ","U+1F78","U+1F79","U+1F7C","U+1F7D","ῳ","U+214E","U+2170","U+2171",
    "U+2172","U+2173","U+2174","U+2175","U+2176","U+2177","U+2178","U+2179",
    "U+217A","U+217B","U+217C","U+217D","U+217E","U+217F","ↄ","ⓐ","ⓑ","ⓒ","ⓓ",
    "ⓔ","ⓕ","ⓖ","ⓗ","ⓘ","ⓙ","ⓚ","ⓛ","ⓜ","ⓝ","ⓞ","ⓟ","ⓠ","ⓡ","ⓢ","ⓣ","ⓤ","ⓥ",
    "ⓦ","ⓧ","ⓨ","ⓩ","U+2C30","U+2C31","U+2C32","U+2C33","U+2C34","U+2C35",
    "U+2C36","U+2C37","U+2C38","U+2C39","U+2C3A","U+2C3B","U+2C3C","U+2C3D",
    "U+2C3E","U+2C3F","U+2C40","U+2C41","U+2C42","U+2C43","U+2C44","U+2C45",
    "U+2C46","U+2C47","U+2C48","U+2C49","U+2C4A","U+2C4B","U+2C4C","U+2C4D",
    "U+2C4E","U+2C4F","U+2C50","U+2C51","U+2C52","U+2C53","U+2C54","U+2C55",
    "U+2C56","U+2C57","U+2C58","U+2C59","U+2C5A","U+2C5B","U+2C5C","U+2C5D",
    "U+2C5E","U+2C5F","U+2C61","U+026B","U+1D7D","U+027D","U+2C68","U+2C6A",
    "U+2C6C","U+0251","U+0271","U+0250","U+0252","U+2C73","U+2C76","U+023F",
    "U+0240","ⲁ","ⲃ","ⲅ","ⲇ","ⲉ","ⲋ","ⲍ","ⲏ","ⲑ","ⲓ","ⲕ","ⲗ","ⲙ","ⲛ","ⲝ","ⲟ",
    "ⲡ","ⲣ","ⲥ","ⲧ","ⲩ","ⲫ","ⲭ","ⲯ","ⲱ","ⲳ","ⲵ","ⲷ","ⲹ","ⲻ","ⲽ","ⲿ","ⳁ","ⳃ",
    "ⳅ","ⳇ","ⳉ","ⳋ","ⳍ","ⳏ","ⳑ","ⳓ","ⳕ","ⳗ","ⳙ","ⳛ","ⳝ","ⳟ","ⳡ","ⳣ","ⳬ","ⳮ",
    "ⳳ","U+A641","U+A643","U+A645","U+A647","U+A649","U+A64B","U+A64D",
    "U+A64F","U+A651","U+A653","U+A655","U+A657","U+A659","U+A65B","U+A65D",
    "U+A65F","U+A661","U+A663","U+A665","U+A667","U+A669","U+A66B","U+A66D",
    "ꚁ","ꚃ","ꚅ","ꚇ","ꚉ","ꚋ","ꚍ","ꚏ","ꚑ","ꚓ","ꚕ","ꚗ","ꚙ","ꚛ","U+A723","U+A725",
    "U+A727","U+A729","U+A72B","U+A72D","U+A72F","U+A733","U+A735","U+A737",
    "U+A739","U+A73B","U+A73D","U+A73F","U+A741","U+A743","U+A745","U+A747",
    "U+A749","U+A74B","U+A74D","U+A74F","U+A751","U+A753","U+A755","U+A757",
    "U+A759","U+A75B","U+A75D","U+A75F","U+A761","U+A763","U+A765","U+A767",
    "U+A769","U+A76B","U+A76D","U+A76F","U+A77A","U+A77C","U+1D79","U+A77F",
    "ꞁ","ꞃ","ꞅ","ꞇ","ꞌ","U+0265","ꞑ","ꞓ","ꞗ","ꞙ","ꞛ","ꞝ","ꞟ","ꞡ","ꞣ","ꞥ","ꞧ",
    "ꞩ","U+0266","U+025C","U+0261","U+026C","U+026A","ʞ","ʇ","ʝ","U+AB53","ꞵ",
    "ꞷ","ꞹ","ꞻ","ꞽ","ꞿ","ꟁ","ꟃ","ꞔ","ʂ","ᶎ","ꟈ","ꟊ","ꟑ","ꟗ","ꟙ","ꟶ","U+FF41",
    "U+FF42","U+FF43","U+FF44","U+FF45","U+FF46","U+FF47","U+FF48","U+FF49",
    "U+FF4A","U+FF4B","U+FF4C","U+FF4D","U+FF4E","U+FF4F","U+FF50","U+FF51",
    "U+FF52","U+FF53","U+FF54","U+FF55","U+FF56","U+FF57","U+FF58","U+FF59",
    "U+FF5A","U+10428","U+10429","U+1042A","U+1042B","U+1042C","U+1042D",
    "U+1042E","U+1042F","U+10430","U+10431","U+10432","U+10433","U+10434",
    "U+10435","U+10436","U+10437","U+10438","U+10439","U+1043A","U+1043B",
    "U+1043C","U+1043D","U+1043E","U+1043F","U+10440","U+10441","U+10442",
    "U+10443","U+10444","U+10445","U+10446","U+10447","U+10448","U+10449",
    "U+1044A","U+1044B","U+1044C","U+1044D","U+1044E","U+1044F","U+104D8",
    "U+104D9","U+104DA","U+104DB","U+104DC","U+104DD","U+104DE","U+104DF",
    "U+104E0","U+104E1","U+104E2","U+104E3","U+104E4","U+104E5","U+104E6",
    "U+104E7","U+104E8","U+104E9","U+104EA","U+104EB","U+104EC","U+104ED",
    "U+104EE","U+104EF","U+104F0","U+104F1","U+104F2","U+104F3","U+104F4",
    "U+104F5","U+104F6","U+104F7","U+104F8","U+104F9","U+104FA","U+104FB",
    "U+10597","U+10598","U+10599","U+1059A","U+1059B","U+1059C","U+1059D",
    "U+1059E","U+1059F","U+105A0","U+105A1","U+105A3","U+105A4","U+105A5",
    "U+105A6","U+105A7","U+105A8","U+105A9","U+105AA","U+105AB","U+105AC",
    "U+105AD","U+105AE","U+105AF","U+105B0","U+105B1","U+105B3","U+105B4",
    "U+105B5","U+105B6","U+105B7","U+105B8","U+105B9","U+105BB","U+105BC",
    "U+10CC0","U+10CC1","U+10CC2","U+10CC3","U+10CC4","U+10CC5","U+10CC6",
    "U+10CC7","U+10CC8","U+10CC9","U+10CCA","U+10CCB","U+10CCC","U+10CCD",
    "U+10CCE","U+10CCF","U+10CD0","U+10CD1","U+10CD2","U+10CD3","U+10CD4",
    "U+10CD5","U+10CD6","U+10CD7","U+10CD8","U+10CD9","U+10CDA","U+10CDB",
    "U+10CDC","U+10CDD","U+10CDE","U+10CDF","U+10CE0","U+10CE1","U+10CE2",
    "U+10CE3","U+10CE4","U+10CE5","U+10CE6","U+10CE7","U+10CE8","U+10CE9",
    "U+10CEA","U+10CEB","U+10CEC","U+10CED","U+10CEE","U+10CEF","U+10CF0",
    "U+10CF1","U+10CF2","U+118C0","U+118C1","U+118C2","U+118C3","U+118C4",
    "U+118C5","U+118C6","U+118C7","U+118C8","U+118C9","U+118CA","U+118CB",
    "U+118CC","U+118CD","U+118CE","U+118CF","U+118D0","U+118D1","U+118D2",
    "U+118D3","U+118D4","U+118D5","U+118D6","U+118D7","U+118D8","U+118D9",
    "U+118DA","U+118DB","U+118DC","U+118DD","U+118DE","U+118DF","U+16E60",
    "U+16E61","U+16E62","U+16E63","U+16E64","U+16E65","U+16E66","U+16E67",
    "U+16E68","U+16E69","U+16E6A","U+16E6B","U+16E6C","U+16E6D","U+16E6E",
    "U+16E6F","U+16E70","U+16E71","U+16E72","U+16E73","U+16E74","U+16E75",
    "U+16E76","U+16E77","U+16E78","U+16E79","U+16E7A","U+16E7B","U+16E7C",
    "U+16E7D","U+16E7E","U+16E7F","U+1E922","U+1E923","U+1E924","U+1E925",
    "U+1E926","U+1E927","U+1E928","U+1E929","U+1E92A","U+1E92B","U+1E92C",
    "U+1E92D","U+1E92E","U+1E92F","U+1E930","U+1E931","U+1E932","U+1E933",
    "U+1E934","U+1E935","U+1E936","U+1E937","U+1E938","U+1E939","U+1E93A",
    "U+1E93B","U+1E93C","U+1E93D","U+1E93E","U+1E93F","U+1E940","U+1E941",
    "U+1E942","U+1E943">>

\* unicode.ToLower of the characters that are not the capital of their
\* small letter: capital I with dot, the title-case digraphs, the Kelvin,
\* Angstrom and ohm signs, capital theta symbol, capital sharp s
LowerSpecial ==
  << <<"U+0130","i">>,<<"ǅ","ǆ">>,<<"ǈ","ǉ">>,<<"ǋ","ǌ">>,<<"ǲ","ǳ">>,
     <<"ϴ","θ">>,<<"ẞ","ß">>,<<"U+2126","ω">>,<<"U+212A","k">>,
     <<"U+212B","å">> >>

\* unicode.ToUpper of the characters that are not the small letter of
\* their capital: the micro sign, dotless i, long s, the title-case
\* digraphs, the combining iota, final sigma, the Greek symbol letters,
\* the Cyrillic letter variants, long s with dot, the Greek prosgegrammeni
UpperSpecial ==
  << <<"µ","Μ">>,<<"U+0131","I">>,<<"U+017F","S">>,<<"ǅ","Ǆ">>,<<"ǈ","Ǉ">>,
     <<"ǋ","Ǌ">>,<<"ǲ","Ǳ">>,<<"U+0345","Ι">>,<<"ς","Σ">>,<<"ϐ","Β">>,
     <<"ϑ","Θ">>,<<"ϕ","Φ">>,<<"ϖ","Π">>,<<"ϰ","Κ">>,<<"ϱ","Ρ">>,<<"ϵ","Ε">>,
     <<"ᲀ","U+0412">>,<<"ᲁ","U+0414">>,<<"ᲂ","U+041E">>,<<"ᲃ","U+0421">>,
     <<"ᲄ","U+0422">>,<<"ᲅ","U+0422">>,<<"ᲆ","U+042A">>,<<"ᲇ","U+0462">>,
     <<"ᲈ","U+A64A">>,<<"ẛ","U+1E60">>,<<"ι","Ι">> >>

\* the image of c under the pairs of table, c itself when it has none
Mapped(table, c) ==
  IF \E i \in DOMAIN table : table[i][1] = c
  THEN table[CHOOSE i \in DOMAIN table : table[i][1] = c][2]
  ELSE c

ToLowerChar(c) ==
  IF \E i \in DOMAIN UpperLetters : UpperLetters[i] = c
  THEN LowerLetters[CHOOSE i \in DOMAIN UpperLetters : UpperLetters[i] = c]
  ELSE Mapped(LowerSpecial, c)

ToUpperChar(c) ==
  IF \E i \in DOMAIN LowerLetters : LowerLetters[i] = c
  THEN UpperLetters[CHOOSE i \in DOMAIN LowerLetters : LowerLetters[i] = c]
  ELSE Mapped(UpperSpecial, c)

ToLower(s) == [i \in 1..Len(s) |-> ToLowerChar(s[i])]

ToUpper(s) == [i \in 1..Len(s) |-> ToUpperChar(s[i])]

Contains(s, substr) ==
  \E i \in 0..(Len(s) - Len(substr)) : SubSeq(s, i + 1, i + Len(substr)) = substr

\* unicode.IsSpace: tab, line feed, vertical tab, form feed, carriage
\* return, space, U+0085, U+00A0, U+1680, U+2000 to U+200A, U+2028, U+2029,
\* U+202F, U+205F and U+3000
WhiteSpace ==
  {"\t", "\n", "", "\f", "\r", " ", "", " ", " ",
   "U+2000", "U+2001", "U+2002", "U+2003", "U+2004", "U+2005",
   "U+2006", "U+2007", "U+2008", "U+2009", "U+200A",
   "U+2028", "U+2029", "U+202F", "U+205F", "U+3000"}

RECURSIVE TrimLeft(_)
TrimLeft(s) ==
  IF s # <<>> /\ Head(s) \in WhiteSpace THEN TrimLeft(Tail(s)) ELSE s

RECURSIVE TrimRight(_)
TrimRight(s) ==
  IF s # <<>> /\ s[Len(s)] \in WhiteSpace
  THEN TrimRight(SubSeq(s, 1, Len(s) - 1))
  ELSE s

TrimSpace(s) == TrimRight(TrimLeft(s))

\* ------------------------------------------------------------------------
\* Sentiment labels (character sequences: PredictChurn upper-cases them)
\* ------------------------------------------------------------------------

NEGATIVE == <<"N","E","G","A","T","I","V","E">>
POSITIVE == <<"P","O","S","I","T","I","V","E">>
NEUTRAL  == <<"N","E","U","T","R","A","L">>
UNKNOWN  == <<"U","N","K","N","O","W","N">>

\* ------------------------------------------------------------------------
\* appcore.PredictChurn
\* ------------------------------------------------------------------------

negativeKeywords ==
  << <<"b","a","d">>,
     <<"p","o","o","r">>,
     <<"t","e","r","r","i","b","l","e">>,
     <<"u","n","h","a","p","p","y">> >>

HighChurnProbability == 80
LowChurnProbability == 10
ModerateChurnProbability == 40

reasonHighChurn == "Low NLS score and/or negative feedback/sentiment."
reasonLowChurn == "High NLS score."
reasonModerateChurn == "Moderate NLS score or neutral feedback/sentiment."

hasNegativeFeedback(feedback) ==
  /\ feedback # <<>>
  /\ \E k \in DOMAIN negativeKeywords :
       Contains(ToLower(feedback), negativeKeywords[k])

\* mutant: the label is compared as it is, without strings.ToUpper
MutIsNegativeSentiment(commentSentiment) == commentSentiment = NEGATIVE

isNegativeSentiment(commentSentiment) == ToUpper(commentSentiment) = NEGATIVE

\* the condition of the first branch
HighChurnRule(data) ==
  \/ data.NLSScore < 5 /\ hasNegativeFeedback(data.Feedback)
  \/ data.NLSScore < 3 /\ isNegativeSentiment(data.CommentSentiment)

\* mutant: a low rating with a topic extracted from the comment counts as
\* high churn too
MutPredictChurn(data) ==
  IF HighChurnRule(data) \/ (data.NLSScore < 5 /\ Len(data.CommentTopics) > 0)
  THEN [CustomerID |-> 0, ChurnProbability |-> HighChurnProbability,
        Reason |-> reasonHighChurn, PredictedAt |-> "now"]
  ELSE IF data.NLSScore >= 8
  THEN [CustomerID |-> 0, ChurnProbability |-> LowChurnProbability,
        Reason |-> reasonLowChurn, PredictedAt |-> "now"]
  ELSE [CustomerID |-> 0, ChurnProbability |-> ModerateChurnProbability,
        Reason |-> reasonModerateChurn, PredictedAt |-> "now"]

\* data: [NLSScore, Feedback, CommentSentiment, CommentTopics]
PredictChurn(data) ==
  IF HighChurnRule(data)
  THEN [CustomerID |-> 0, ChurnProbability |-> HighChurnProbability,
        Reason |-> reasonHighChurn, PredictedAt |-> "now"]
  ELSE IF data.NLSScore >= 8
  THEN [CustomerID |-> 0, ChurnProbability |-> LowChurnProbability,
        Reason |-> reasonLowChurn, PredictedAt |-> "now"]
  ELSE [CustomerID |-> 0, ChurnProbability |-> ModerateChurnProbability,
        Reason |-> reasonModerateChurn, PredictedAt |-> "now"]

\* ------------------------------------------------------------------------
\* The inference endpoint as the code sees it
\* ------------------------------------------------------------------------

\* candidateTopics of PredictHandler
candidateTopics ==
  <<"service", "product quality", "pricing", "customer support", "speed", "ease of use">>

\* appcore.TopicScoreThreshold, in hundredths
TopicScoreThreshold == 80

\* A reply of the endpoint to one HTTP request:
\*   [kind |-> "transport"]              client.Do or io.ReadAll failed
\*   [kind |-> "status"]                 a status other than 200
\*   [kind |-> "ok", valid |-> b, value |-> v]
\*                                       status 200; valid tells whether
\*                                       json.Unmarshal accepts the body, v is
\*                                       the decoded value
\* CallHuggingFaceAPI returns [err, body]; err = "nil" when it succeeded.
NoBody == [valid |-> FALSE, value |-> <<>>]

CallHuggingFaceAPI(hfToken, reply) ==
  IF ~hfToken
  THEN [err |-> "HF_TOKEN environment variable not set", body |-> NoBody]
  ELSE IF reply.kind = "transport"
  THEN [err |-> "error sending request to Hugging Face API", body |-> NoBody]
  ELSE IF reply.kind = "status"
  THEN [err |-> "Hugging Face API request failed with status", body |-> NoBody]
  ELSE [err |-> "nil", body |-> [valid |-> reply.valid, value |-> reply.value]]

\* mutant: a pair replaces the best one when its score is as high
RECURSIVE MutBestLabel(_, _, _)
MutBestLabel(pairs, highestScore, bestLabel) ==
  IF pairs = <<>> THEN bestLabel
  ELSE IF Head(pairs).Score >= highestScore
  THEN MutBestLabel(Tail(pairs), Head(pairs).Score, Head(pairs).Label)
  ELSE MutBestLabel(Tail(pairs), highestScore, bestLabel)

\* the loop of GetSentimentFromHF over sentimentResponse[0]
RECURSIVE BestLabel(_, _, _)
BestLabel(pairs, highestScore, bestLabel) ==
  IF pairs = <<>> THEN bestLabel
  ELSE IF Head(pairs).Score > highestScore
  THEN BestLabel(Tail(pairs), Head(pairs).Score, Head(pairs).Label)
  ELSE BestLabel(Tail(pairs), highestScore, bestLabel)

\* mutant: the blank-text shortcut is missing, the endpoint is always called
MutGetSentimentFromHF(feedbackText, hfToken, reply) ==
  LET r == CallHuggingFaceAPI(hfToken, reply) IN
    IF r.err # "nil"
    THEN [label |-> UNKNOWN, err |-> "sentiment API call failed", called |-> TRUE]
    ELSE IF ~r.body.valid
    THEN [label |-> UNKNOWN, err |-> "error unmarshalling sentiment response",
          called |-> TRUE]
    ELSE IF Len(r.body.value) = 0 \/ Len(r.body.value[1]) = 0
    THEN [label |-> UNKNOWN, err |-> "sentiment response format unexpected or empty",
          called |-> TRUE]
    ELSE [label |-> BestLabel(r.body.value[1], 0, NEUTRAL), err |-> "nil", called |-> TRUE]

\* returns [label, err, called]: called tells whether CallHuggingFaceAPI ran
GetSentimentFromHF(feedbackText, hfToken, reply) ==
  IF TrimSpace(feedbackText) = <<>>
  THEN [label |-> NEUTRAL, err |-> "nil", called |-> FALSE]
  ELSE LET r == CallHuggingFaceAPI(hfToken, reply) IN
    IF r.err # "nil"
    THEN [label |-> UNKNOWN, err |-> "sentiment API call failed", called |-> TRUE]
    ELSE IF ~r.body.valid
    THEN [label |-> UNKNOWN, err |-> "error unmarshalling sentiment response",
          called |-> TRUE]
    ELSE IF Len(r.body.value) = 0 \/ Len(r.body.value[1]) = 0
    THEN [label |-> UNKNOWN, err |-> "sentiment response format unexpected or empty",
          called |-> TRUE]
    ELSE [label |-> BestLabel(r.body.value[1], 0, NEUTRAL), err |-> "nil", called |-> TRUE]

\* mutant: a score equal to the threshold is enough
RECURSIVE MutExtractTopics(_, _)
MutExtractTopics(labels, scores) ==
  IF labels = <<>> THEN <<>>
  ELSE IF Head(scores) >= TopicScoreThreshold
  THEN <<Head(labels)>> \o MutExtractTopics(Tail(labels), Tail(scores))
  ELSE MutExtractTopics(Tail(labels), Tail(scores))

\* the loop of GetTopicsFromHF over zeroShotResponse.Labels
RECURSIVE ExtractTopics(_, _)
ExtractTopics(labels, scores) ==
  IF labels = <<>> THEN <<>>
  ELSE IF Head(scores) > TopicScoreThreshold
  THEN <<Head(labels)>> \o ExtractTopics(Tail(labels), Tail(scores))
  ELSE ExtractTopics(Tail(labels), Tail(scores))

\* returns [topics, err, called]; a nil slice and an empty slice are both <<>>
GetTopicsFromHF(feedbackText, candidates, hfToken, reply) ==
  IF TrimSpace(feedbackText) = <<>> \/ Len(candidates) = 0
  THEN [topics |-> <<>>, err |-> "nil", called |-> FALSE]
  ELSE LET r == CallHuggingFaceAPI(hfToken, reply) IN
    IF r.err # "nil"
    THEN [topics |-> <<>>, err |-> "topic extraction API call failed", called |-> TRUE]
    ELSE IF ~r.body.valid
    THEN [topics |-> <<>>, err |-> "error unmarshalling zero-shot response",
          called |-> TRUE]
    ELSE IF Len(r.body.value.Labels) > 0
              /\ Len(r.body.value.Scores) = Len(r.body.value.Labels)
    THEN [topics |-> ExtractTopics(r.body.value.Labels, r.body.value.Scores), err |-> "nil",
          called |-> TRUE]
    ELSE [topics |-> <<>>, err |-> "nil", called |-> TRUE]

\* ------------------------------------------------------------------------
\* Inputs and replies the model draws from
\* ------------------------------------------------------------------------

\* requests: [Method, JSONValid, NLSScore, FeedbackText]; JSONValid tells
\* whether json.Decode accepts the body, NLSScore is a *int (<<>> is nil,
\* <<n>> points to n).  One request per outcome of the checks, a GET
\* request whose body does not decode, and three
\* that pass them: one with a text, one with a whitespace-only text, one
\* with an empty text.
RequestInputs ==
  { [Method |-> "GET", JSONValid |-> TRUE, NLSScore |-> <<4>>, FeedbackText |-> <<"o","k">>],
    [Method |-> "GET", JSONValid |-> FALSE, NLSScore |-> <<>>, FeedbackText |-> <<>>],
    [Method |-> "POST", JSONValid |-> FALSE, NLSScore |-> <<>>, FeedbackText |-> <<>>],
    [Method |-> "POST", JSONValid |-> TRUE, NLSScore |-> <<>>, FeedbackText |-> <<"o","k">>],
    [Method |-> "POST", JSONValid |-> TRUE, NLSScore |-> <<-1>>, FeedbackText |-> <<"o","k">>],
    [Method |-> "POST", JSONValid |-> TRUE, NLSScore |-> <<11>>, FeedbackText |-> <<"o","k">>],
    [Method |-> "POST", JSONValid |-> TRUE, NLSScore |-> <<0>>, FeedbackText |-> <<"o","k">>],
    [Method |-> "POST", JSONValid |-> TRUE, NLSScore |-> <<10>>, FeedbackText |-> <<" ", "\f">>],
    [Method |-> "POST", JSONValid |-> TRUE, NLSScore |-> <<7>>, FeedbackText |-> <<>>] }

\* replies of the sentiment model
SentimentReplies ==
  { [kind |-> "transport", valid |-> FALSE, value |-> <<>>],
    [kind |-> "status", valid |-> FALSE, value |-> <<>>],
    [kind |-> "ok", valid |-> FALSE, value |-> <<>>],
    [kind |-> "ok", valid |-> TRUE, value |-> <<>>],
    [kind |-> "ok", valid |-> TRUE, value |-> << <<>> >>],
    [kind |-> "ok", valid |-> TRUE,
     value |-> << << [Label |-> POSITIVE, Score |-> 2], [Label |-> NEGATIVE, Score |-> 98] >> >>] }

\* replies of the zero-shot model
TopicReplies ==
  { [kind |-> "transport", valid |-> FALSE, value |-> [Labels |-> <<>>, Scores |-> <<>>]],
    [kind |-> "ok", valid |-> FALSE, value |-> [Labels |-> <<>>, Scores |-> <<>>]],
    [kind |-> "ok", valid |-> TRUE,
     value |-> [Labels |-> <<"service", "pricing">>, Scores |-> <<93, 80>>]] }

\* replies of the store to the customer_feedback insert:
\*   "error"       Execute returned an error, nothing was inserted
\*   "unparsable"  the row was inserted, json.Unmarshal rejects the reply
\*   "empty"       the row was inserted, the reply lists no row
\*   "rows"        the row was inserted and is returned
FeedbackInsertReplies == {"error", "unparsable", "empty", "rows"}

\* replies of the store to the churn_predictions insert
PredictionInsertReplies == {"error", "rows"}

\* ------------------------------------------------------------------------
\* State
\* ------------------------------------------------------------------------

VARIABLES
  mode,              \* "vercel": the platform calls PredictHandler;
                     \* "standalone": cmd/server main() serves it
  env,               \* [SUPABASE_URL, SUPABASE_KEY, HF_TOKEN]: which are set
  mainPc,            \* main(): "initialize", "fatal" (log.Fatalf), "serving"
  serverInitOnce,    \* initOnce of the standalone server's main package
  serverInitErr,     \* initErr of the standalone server's main package
  initOnce,          \* initOnce of package handler: "fresh", "running", "done"
  initErr,           \* initErr of package handler ("nil" when no error)
  SupabaseClient,    \* appcore.SupabaseClient: 0 is nil, n the n-th handle
  clientsCreated,    \* number of handles supabase.NewClient has constructed
  customer_feedback, \* rows of table customer_feedback
  churn_predictions, \* rows of table churn_predictions
  nextUuid,          \* uuid_generate_v4(): the next fresh identifier
  pc,                \* position of each request in PredictHandler
  req,               \* the request being served
  sentiment,         \* local sentiment
  errSentiment,      \* local errSentiment
  topics,            \* local topics
  errTopics,         \* local errTopics
  customerID,        \* local customerID
  churnPrediction,   \* local churnPrediction
  resp,              \* what was written to the http.ResponseWriter
  trace,             \* per request, the calls made so far, in order
  stored,            \* per request, the identifiers of the rows the store
                     \* inserted for it (0: none)
  storeReply,        \* per request, the reply of the store to the insert
                     \* the request is waiting for in Execute()
  data,              \* argument of a direct call of PredictChurn
  prediction,        \* its result
  otherData,         \* argument of a second direct call of PredictChurn
  otherPrediction,   \* its result
  fnCall,            \* arguments of a direct call of an appcore function
  fnReturn           \* what that call returned

procVars == <<mode, env, mainPc, serverInitOnce, serverInitErr, initOnce, initErr,
              SupabaseClient, clientsCreated>>
storeVars == <<customer_feedback, churn_predictions, nextUuid>>
reqVars == <<pc, req, sentiment, errSentiment, topics, errTopics, customerID,
             churnPrediction, resp, trace, stored, storeReply>>
scoreVars == <<data, prediction, otherData, otherPrediction, fnCall, fnReturn>>
vars == <<procVars, storeVars, reqVars, scoreVars>>

NoRequest == [Method |-> "", JSONValid |-> FALSE, NLSScore |-> <<>>, FeedbackText |-> <<>>]

NoPrediction == [CustomerID |-> 0, ChurnProbability |-> 0, Reason |-> "", PredictedAt |-> ""]

NoResponse ==
  [status |-> 0, error |-> "", detail |-> "", customer_id |-> 0,
   churn_probability |-> 0, reason |-> "", comment_sentiment |-> <<>>,
   comment_topics |-> <<>>]

\* no reply of the store is on its way; a reply is [kind, id]: kind is one
\* of FeedbackInsertReplies, id the identifier of the inserted row (0: none)
NoReply == [kind |-> "", id |-> 0]

\* no direct call of an appcore function was made
NoCall == [fn |-> "", text |-> <<>>, candidates |-> <<>>, token |-> FALSE, reply |-> <<>>]

NoReturn == [label |-> <<>>, topics |-> <<>>, err |-> "", called |-> FALSE]

NoData == [NLSScore |-> 0, Feedback |-> <<>>, CommentSentiment |-> <<>>, CommentTopics |-> <<>>]

\* appcore.RespondWithError(w, code, message); detail is text appended to
\* the message
RespondWithError(code, message, detail) ==
  [NoResponse EXCEPT !.status = code, !.error = message, !.detail = detail]

InitProcess ==
  /\ mode \in {"vercel", "standalone"}
  /\ env \in [SUPABASE_URL : BOOLEAN, SUPABASE_KEY : BOOLEAN, HF_TOKEN : BOOLEAN]
  /\ mainPc = IF mode = "standalone" THEN "initialize" ELSE "serving"
  /\ serverInitOnce = "fresh"
  /\ serverInitErr = "nil"
  /\ initOnce = "fresh"
  /\ initErr = "nil"
  /\ SupabaseClient = 0
  /\ clientsCreated = 0

InitStore ==
  /\ customer_feedback = {}
  /\ churn_predictions = {}
  /\ nextUuid = 1

InitRequests ==
  /\ pc = [r \in Requests |-> "idle"]
  /\ req = [r \in Requests |-> NoRequest]
  /\ sentiment = [r \in Requests |-> <<>>]
  /\ errSentiment = [r \in Requests |-> "nil"]
  /\ topics = [r \in Requests |-> <<>>]
  /\ errTopics = [r \in Requests |-> "nil"]
  /\ customerID = [r \in Requests |-> 0]
  /\ churnPrediction = [r \in Requests |-> NoPrediction]
  /\ resp = [r \in Requests |-> NoResponse]
  /\ trace = [r \in Requests |-> <<>>]
  /\ stored = [r \in Requests |-> [feedback_id |-> 0, prediction_id |-> 0]]
  /\ storeReply = [r \in Requests |-> NoReply]

Init ==
  /\ InitProcess
  /\ InitStore
  /\ InitRequests
  /\ data = NoData
  /\ prediction = NoPrediction
  /\ otherData = NoData
  /\ otherPrediction = NoPrediction
  /\ fnCall = NoCall
  /\ fnReturn = NoReturn

\* ------------------------------------------------------------------------
\* appcore.InitClients
\* ------------------------------------------------------------------------

\* The result of one call of InitClients: the error it returns, the value of
\* appcore.SupabaseClient and the number of handles constructed afterwards.
\* newClientOk tells whether supabase.NewClient succeeds.
InitClients(e, client, created, newClientOk) ==
  IF ~e.SUPABASE_URL \/ ~e.SUPABASE_KEY
  THEN [err |-> "SUPABASE_URL and SUPABASE_KEY environment variables must be set",
        client |-> client, created |-> created]
  ELSE IF newClientOk
  THEN [err |-> "nil", client |-> created + 1, created |-> created + 1]
  ELSE [err |-> "error initializing Supabase client", client |-> 0, created |-> created]

\* ------------------------------------------------------------------------
\* cmd/server main(): initialize() and then ListenAndServe or log.Fatalf
\* ------------------------------------------------------------------------

ServerMain ==
  /\ mainPc = "initialize"
  /\ serverInitOnce = "fresh"
  /\ \E newClientOk \in BOOLEAN :
       LET out == InitClients(env, SupabaseClient, clientsCreated, newClientOk) IN
         /\ serverInitOnce' = "done"
         /\ serverInitErr' = out.err
         /\ SupabaseClient' = out.client
         /\ clientsCreated' = out.created
         /\ mainPc' = IF out.err # "nil" THEN "fatal" ELSE "serving"
  /\ UNCHANGED <<mode, env, initOnce, initErr>>
  /\ UNCHANGED <<storeVars, reqVars, scoreVars>>

\* ------------------------------------------------------------------------
\* api.PredictHandler, one action per step of a request
\* ------------------------------------------------------------------------

\* mutant: the range check has no upper limit
MutValidate(ierr, client, request) ==
  IF ierr # "nil"
  THEN RespondWithError(500, "Server initialization failed: ", ierr)
  ELSE IF request.Method # "POST"
  THEN RespondWithError(405, "Only POST method is allowed.", "")
  ELSE IF ~request.JSONValid
  THEN RespondWithError(400, "Invalid JSON request body.", "")
  ELSE IF request.NLSScore = <<>>
  THEN RespondWithError(400, "NLS score is required.", "")
  ELSE IF request.NLSScore[1] < 0
  THEN RespondWithError(400, "NLS score must be between 0 and 10.", "")
  ELSE NoResponse

\* mutant: the body is decoded before the method is looked at
MutValidateOrder(ierr, client, request) ==
  IF ierr # "nil"
  THEN RespondWithError(500, "Server initialization failed: ", ierr)
  ELSE IF ~request.JSONValid
  THEN RespondWithError(400, "Invalid JSON request body.", "")
  ELSE IF request.Method # "POST"
  THEN RespondWithError(405, "Only POST method is allowed.", "")
  ELSE IF request.NLSScore = <<>>
  THEN RespondWithError(400, "NLS score is required.", "")
  ELSE IF request.NLSScore[1] < 0 \/ request.NLSScore[1] > 10
  THEN RespondWithError(400, "NLS score must be between 0 and 10.", "")
  ELSE NoResponse

\* The checks of PredictHandler before the first external call, in the
\* order of the code; the response of the first failing check, NoResponse
\* when all pass.
Validate(ierr, client, request) ==
  IF ierr # "nil"
  THEN RespondWithError(500, "Server initialization failed: ", ierr)
  ELSE IF client = 0 /\ ierr # "nil"
  THEN RespondWithError(500, "Supabase client not available due to initialization error.", "")
  ELSE IF request.Method # "POST"
  THEN RespondWithError(405, "Only POST method is allowed.", "")
  ELSE IF ~request.JSONValid
  THEN RespondWithError(400, "Invalid JSON request body.", "")
  ELSE IF request.NLSScore = <<>>
  THEN RespondWithError(400, "NLS score is required.", "")
  ELSE IF request.NLSScore[1] < 0 \/ request.NLSScore[1] > 10
  THEN RespondWithError(400, "NLS score must be between 0 and 10.", "")
  ELSE NoResponse

\* mutant: the result of initialize() is not looked at
MutCheckRequest(r, ierr, client, request) ==
  LET answer == Validate("nil", client, request) IN
    IF answer # NoResponse
    THEN /\ resp' = [resp EXCEPT ![r] = answer]
         /\ pc' = [pc EXCEPT ![r] = "done"]
    ELSE /\ resp' = resp
         /\ pc' = [pc EXCEPT ![r] = "GetSentimentFromHF"]

\* PredictHandler from the return of initialize() to the first external
\* call, with initErr and appcore.SupabaseClient as they are then
CheckRequest(r, ierr, client, request) ==
  LET answer == Validate(ierr, client, request) IN
    IF answer # NoResponse
    THEN /\ resp' = [resp EXCEPT ![r] = answer]
         /\ pc' = [pc EXCEPT ![r] = "done"]
    ELSE /\ resp' = resp
         /\ pc' = [pc EXCEPT ![r] = "GetSentimentFromHF"]

\* A request reaches the handler and is the first to enter initOnce.Do
OnceDo(r) ==
  /\ mainPc = "serving"
  /\ pc[r] = "idle"
  /\ initOnce = "fresh"
  /\ \E input \in RequestInputs : req' = [req EXCEPT ![r] = input]
  /\ initOnce' = "running"
  /\ pc' = [pc EXCEPT ![r] = "InitClients"]
  /\ UNCHANGED <<mode, env, mainPc, serverInitOnce, serverInitErr, initErr,
                 SupabaseClient, clientsCreated>>
  /\ UNCHANGED <<storeVars, scoreVars>>
  /\ UNCHANGED <<sentiment, errSentiment, topics, errTopics, customerID,
                 churnPrediction, resp, trace, stored, storeReply>>

\* mutant: a failed initialization leaves the guard open for another try
MutOnceAfterBody(err) == IF err # "nil" THEN "fresh" ELSE "done"

\* sync.Once after the function passed to Do has returned: done, whatever
\* the function recorded in initErr
OnceAfterBody(err) == "done"

\* The function passed to initOnce.Do runs to its end and sync.Once marks
\* itself done: from here on the requests waiting in Do and the ones that
\* arrive go on, while request r has not yet looked at its own request
OnceBody(r) ==
  /\ pc[r] = "InitClients"
  /\ \E newClientOk \in BOOLEAN :
       LET out == InitClients(env, SupabaseClient, clientsCreated, newClientOk) IN
         /\ initErr' = out.err
         /\ SupabaseClient' = out.client
         /\ clientsCreated' = out.created
  /\ initOnce' = OnceAfterBody(initErr')
  /\ pc' = [pc EXCEPT ![r] = "initialize"]
  /\ UNCHANGED <<mode, env, mainPc, serverInitOnce, serverInitErr>>
  /\ UNCHANGED <<storeVars, scoreVars>>
  /\ UNCHANGED <<req, sentiment, errSentiment, topics, errTopics, customerID,
                 churnPrediction, resp, trace, stored, storeReply>>

\* initialize() returns initErr to the request that ran the function, and
\* the handler checks the request
OnceReturn(r) ==
  /\ pc[r] = "initialize"
  /\ CheckRequest(r, initErr, SupabaseClient, req[r])
  /\ UNCHANGED <<procVars, storeVars, scoreVars>>
  /\ UNCHANGED <<req, sentiment, errSentiment, topics, errTopics, customerID,
                 churnPrediction, trace, stored, storeReply>>

\* A request reaches the handler when initOnce.Do has completed (a request
\* arriving while the function runs waits until then); initialize() returns
\* initErr and the handler checks the request
OnceDone(r) ==
  /\ mainPc = "serving"
  /\ pc[r] = "idle"
  /\ initOnce = "done"
  /\ \E input \in RequestInputs :
       /\ req' = [req EXCEPT ![r] = input]
       /\ CheckRequest(r, initErr, SupabaseClient, input)
  /\ UNCHANGED <<procVars, storeVars, scoreVars>>
  /\ UNCHANGED <<sentiment, errSentiment, topics, errTopics, customerID,
                 churnPrediction, trace, stored, storeReply>>

\* mutant: a failed sentiment call ends the request
MutAfterGetSentiment(err) == IF err # "nil" THEN "done" ELSE "GetTopicsFromHF"

\* PredictHandler after GetSentimentFromHF returned err: it logs a warning
\* and goes on in both cases
AfterGetSentiment(err) == "GetTopicsFromHF"

\* sentiment, errSentiment := appcore.GetSentimentFromHF(req.FeedbackText)
GetSentiment(r) ==
  /\ pc[r] = "GetSentimentFromHF"
  /\ \E reply \in SentimentReplies :
       LET out == GetSentimentFromHF(req[r].FeedbackText, env.HF_TOKEN, reply) IN
         /\ sentiment' = [sentiment EXCEPT ![r] =
                            IF out.err # "nil" THEN UNKNOWN ELSE out.label]
         /\ errSentiment' = [errSentiment EXCEPT ![r] =
                            IF out.err # "nil" THEN "error" ELSE "nil"]
         /\ trace' = [trace EXCEPT ![r] =
                        IF out.called THEN Append(@, "CallHuggingFaceAPI sentiment") ELSE @]
         /\ pc' = [pc EXCEPT ![r] = AfterGetSentiment(out.err)]
  /\ UNCHANGED <<procVars, storeVars, scoreVars>>
  /\ UNCHANGED <<req, topics, errTopics, customerID, churnPrediction, resp, stored,
                 storeReply>>

\* mutant: the score is computed right after the enrichment and the
\* feedback insert is left out
MutAfterGetTopics(err) == "PredictChurn"

\* PredictHandler after GetTopicsFromHF returned err: it logs a warning and
\* goes on in both cases
AfterGetTopics(err) == "StoreCustomerData"

\* topics, errTopics := appcore.GetTopicsFromHF(req.FeedbackText, candidateTopics)
GetTopics(r) ==
  /\ pc[r] = "GetTopicsFromHF"
  /\ \E reply \in TopicReplies :
       LET out == GetTopicsFromHF(req[r].FeedbackText, candidateTopics,
                                  env.HF_TOKEN, reply) IN
         /\ topics' = [topics EXCEPT ![r] = out.topics]
         /\ errTopics' = [errTopics EXCEPT ![r] =
                            IF out.err # "nil" THEN "error" ELSE "nil"]
         /\ trace' = [trace EXCEPT ![r] =
                        IF out.called THEN Append(@, "CallHuggingFaceAPI topics") ELSE @]
         /\ pc' = [pc EXCEPT ![r] = AfterGetTopics(out.err)]
  /\ UNCHANGED <<procVars, storeVars, scoreVars>>
  /\ UNCHANGED <<req, sentiment, errSentiment, customerID, churnPrediction, resp,
                 stored, storeReply>>

\* mutant: a failed topic extraction resets the sentiment
MutCustomerData(r) ==
  [NLSScore |-> req[r].NLSScore[1], Feedback |-> req[r].FeedbackText,
   CommentSentiment |-> IF errTopics[r] = "error" THEN UNKNOWN ELSE sentiment[r],
   CommentTopics |-> topics[r]]

\* the customerData of request r
CustomerData(r) ==
  [NLSScore |-> req[r].NLSScore[1], Feedback |-> req[r].FeedbackText,
   CommentSentiment |-> sentiment[r], CommentTopics |-> topics[r]]

\* mutant: the row is written under one fixed identifier
MutFeedbackRow(id, d) ==
  [id |-> 1, nls_score |-> d.NLSScore, feedback_text |-> d.Feedback,
   comment_sentiment |-> d.CommentSentiment, comment_topics |-> d.CommentTopics]

\* the row the store inserts for customerData d under identifier id
FeedbackRow(id, d) ==
  [id |-> id, nls_score |-> d.NLSScore, feedback_text |-> d.Feedback,
   comment_sentiment |-> d.CommentSentiment, comment_topics |-> d.CommentTopics]

\* whether the store inserted the row, given the client and the store's reply
FeedbackInserted(client, reply) == client # 0 /\ reply # "error"

\* mutant: a reply without rows is not reported as an error
MutStoreCustomerDataResult(client, reply, id) ==
  IF client = 0
  THEN [id |-> 0, err |-> "SupabaseClient not initialized in appcore"]
  ELSE IF reply = "error"
  THEN [id |-> 0, err |-> "error storing customer data"]
  ELSE IF reply = "unparsable"
  THEN [id |-> 0, err |-> "error unmarshalling customer data"]
  ELSE IF reply = "empty"
  THEN [id |-> 0, err |-> "nil"]
  ELSE [id |-> id, err |-> "nil"]

\* what appcore.StoreCustomerData returns: [id, err]; id is the identifier
\* the store assigned to the row (0 is the empty string)
StoreCustomerDataResult(client, reply, id) ==
  IF client = 0
  THEN [id |-> 0, err |-> "SupabaseClient not initialized in appcore"]
  ELSE IF reply = "error"
  THEN [id |-> 0, err |-> "error storing customer data"]
  ELSE IF reply = "unparsable"
  THEN [id |-> 0, err |-> "error unmarshalling customer data"]
  ELSE IF reply = "empty"
  THEN [id |-> 0, err |-> "no data returned after insert"]
  ELSE [id |-> id, err |-> "nil"]

\* mutant: the return after the error response is missing
MutAfterStoreCustomerData(err) == "PredictChurn"

\* PredictHandler after StoreCustomerData returned err
AfterStoreCustomerData(err) == IF err # "nil" THEN "done" ELSE "PredictChurn"

\* customerID, err := appcore.StoreCustomerData(customerData), up to the
\* point where the store has handled the insert: the row is in the table
\* (or not) and the reply is on its way, the request waits in Execute()
StoreCustomerData(r) ==
  /\ pc[r] = "StoreCustomerData"
  /\ \E reply \in FeedbackInsertReplies :
       IF FeedbackInserted(SupabaseClient, reply)
       THEN /\ customer_feedback' =
                 customer_feedback \cup {FeedbackRow(nextUuid, CustomerData(r))}
            /\ nextUuid' = nextUuid + 1
            /\ stored' = [stored EXCEPT ![r].feedback_id = nextUuid]
            /\ storeReply' = [storeReply EXCEPT ![r] = [kind |-> reply, id |-> nextUuid]]
       ELSE /\ UNCHANGED <<customer_feedback, nextUuid, stored>>
            /\ storeReply' = [storeReply EXCEPT ![r] =
                  IF SupabaseClient = 0 THEN NoReply ELSE [kind |-> reply, id |-> 0]]
  /\ trace' = [trace EXCEPT ![r] = Append(@, "StoreCustomerData")]
  /\ pc' = [pc EXCEPT ![r] = "StoreCustomerData.Execute"]
  /\ UNCHANGED churn_predictions
  /\ UNCHANGED <<procVars, scoreVars>>
  /\ UNCHANGED <<req, sentiment, errSentiment, topics, errTopics, customerID,
                 churnPrediction, resp>>

\* Execute() returns with the reply: StoreCustomerData parses it and
\* returns, the handler answers 500 or goes on
StoreCustomerDataReturn(r) ==
  /\ pc[r] = "StoreCustomerData.Execute"
  /\ LET out == StoreCustomerDataResult(SupabaseClient, storeReply[r].kind,
                                        storeReply[r].id) IN
       /\ customerID' = [customerID EXCEPT ![r] = out.id]
       /\ trace' = [trace EXCEPT ![r] =
            Append(@, IF out.err = "nil" THEN "StoreCustomerData: ok"
                                        ELSE "StoreCustomerData: error")]
       /\ resp' = [resp EXCEPT ![r] =
            IF out.err # "nil"
            THEN RespondWithError(500, "Failed to store customer data.", "")
            ELSE @]
       /\ pc' = [pc EXCEPT ![r] = AfterStoreCustomerData(out.err)]
  /\ storeReply' = [storeReply EXCEPT ![r] = NoReply]
  /\ UNCHANGED <<procVars, storeVars, scoreVars>>
  /\ UNCHANGED <<req, sentiment, errSentiment, topics, errTopics, churnPrediction,
                 stored>>

\* mutant: the parent reference is the identifier most recently assigned
\* by the store (a value shared by the requests)
MutPredictionCustomerID(r) == nextUuid - 1

\* the parent reference the handler attaches to the prediction of request r
PredictionCustomerID(r) == customerID[r]

\* churnPrediction := appcore.PredictChurn(customerData)
\* churnPrediction.CustomerID = customerID
Score(r) ==
  /\ pc[r] = "PredictChurn"
  /\ churnPrediction' = [churnPrediction EXCEPT ![r] =
        [PredictChurn(CustomerData(r)) EXCEPT !.CustomerID = PredictionCustomerID(r)]]
  /\ trace' = [trace EXCEPT ![r] = Append(@, "PredictChurn")]
  /\ pc' = [pc EXCEPT ![r] = "StoreChurnPrediction"]
  /\ UNCHANGED <<procVars, storeVars, scoreVars>>
  /\ UNCHANGED <<req, sentiment, errSentiment, topics, errTopics, customerID, resp,
                 stored, storeReply>>

\* the row the store inserts for prediction p under identifier id
PredictionRow(id, p) ==
  [id |-> id, customer_feedback_id |-> p.CustomerID,
   churn_probability |-> p.ChurnProbability, reason |-> p.Reason]

\* customer_feedback_id REFERENCES customer_feedback(id): whether the parent
\* of prediction p is a row of the table feedback
ForeignKeyHolds(p, feedback) ==
  \E row \in feedback : row.id = p.CustomerID

\* the reply of the store to the insert of prediction p: the store refuses
\* a row whose parent does not exist
PredictionInsertReply(reply, p, feedback) ==
  IF ForeignKeyHolds(p, feedback) THEN reply ELSE "error"

\* what appcore.StoreChurnPrediction returns: err
StoreChurnPredictionResult(client, reply) ==
  IF client = 0
  THEN "SupabaseClient not initialized in appcore"
  ELSE IF reply = "error"
  THEN "error storing churn prediction"
  ELSE "nil"

\* mutant: the message of the other storage failure
MutPredictionFailure == RespondWithError(500, "Failed to store customer data.", "")

\* the response when StoreChurnPrediction failed
PredictionFailure == RespondWithError(500, "Failed to store churn prediction.", "")

\* mutant: a failed prediction insert is tried again
MutAfterStoreChurnPrediction(err) ==
  IF err # "nil" THEN "StoreChurnPrediction" ELSE "done"

\* PredictHandler after StoreChurnPrediction returned err: it responds and
\* returns in both cases
AfterStoreChurnPrediction(err) == "done"

\* mutant: customer_id is the identifier the store assigned last
MutApiResponse(r) ==
  [NoResponse EXCEPT !.status = 200,
                     !.customer_id = nextUuid - 1,
                     !.churn_probability = churnPrediction[r].ChurnProbability,
                     !.reason = churnPrediction[r].Reason,
                     !.comment_sentiment = sentiment[r],
                     !.comment_topics = topics[r]]

\* the 200 response of request r
ApiResponse(r) ==
  [NoResponse EXCEPT !.status = 200,
                     !.customer_id = customerID[r],
                     !.churn_probability = churnPrediction[r].ChurnProbability,
                     !.reason = churnPrediction[r].Reason,
                     !.comment_sentiment = sentiment[r],
                     !.comment_topics = topics[r]]

\* err = appcore.StoreChurnPrediction(churnPrediction), up to the point
\* where the store has handled the insert and the request waits in Execute()
StoreChurnPrediction(r) ==
  /\ pc[r] = "StoreChurnPrediction"
  /\ \E reply \in PredictionInsertReplies :
       LET answer == PredictionInsertReply(reply, churnPrediction[r], customer_feedback) IN
         IF StoreChurnPredictionResult(SupabaseClient, answer) = "nil"
         THEN /\ churn_predictions' =
                   churn_predictions \cup {PredictionRow(nextUuid, churnPrediction[r])}
              /\ nextUuid' = nextUuid + 1
              /\ stored' = [stored EXCEPT ![r].prediction_id = nextUuid]
              /\ storeReply' = [storeReply EXCEPT ![r] = [kind |-> answer, id |-> nextUuid]]
         ELSE /\ UNCHANGED <<churn_predictions, nextUuid, stored>>
              /\ storeReply' = [storeReply EXCEPT ![r] =
                    IF SupabaseClient = 0 THEN NoReply ELSE [kind |-> answer, id |-> 0]]
  /\ trace' = [trace EXCEPT ![r] = Append(@, "StoreChurnPrediction")]
  /\ pc' = [pc EXCEPT ![r] = "StoreChurnPrediction.Execute"]
  /\ UNCHANGED customer_feedback
  /\ UNCHANGED <<procVars, scoreVars>>
  /\ UNCHANGED <<req, sentiment, errSentiment, topics, errTopics, customerID,
                 churnPrediction, resp>>

\* Execute() returns with the reply: StoreChurnPrediction returns and the
\* handler writes the response
StoreChurnPredictionReturn(r) ==
  /\ pc[r] = "StoreChurnPrediction.Execute"
  /\ LET err == StoreChurnPredictionResult(SupabaseClient, storeReply[r].kind) IN
       /\ trace' = [trace EXCEPT ![r] =
            Append(@, IF err = "nil" THEN "StoreChurnPrediction: ok"
                                    ELSE "StoreChurnPrediction: error")]
       /\ resp' = [resp EXCEPT ![r] =
            IF err # "nil" THEN PredictionFailure ELSE ApiResponse(r)]
       /\ pc' = [pc EXCEPT ![r] = AfterStoreChurnPrediction(err)]
  /\ storeReply' = [storeReply EXCEPT ![r] = NoReply]
  /\ UNCHANGED <<procVars, storeVars, scoreVars>>
  /\ UNCHANGED <<req, sentiment, errSentiment, topics, errTopics, customerID,
                 churnPrediction, stored>>

PredictHandler(r) ==
  \/ OnceDo(r)
  \/ OnceBody(r)
  \/ OnceReturn(r)
  \/ OnceDone(r)
  \/ GetSentiment(r)
  \/ GetTopics(r)
  \/ StoreCustomerData(r)
  \/ StoreCustomerDataReturn(r)
  \/ Score(r)
  \/ StoreChurnPrediction(r)
  \/ StoreChurnPredictionReturn(r)

Next ==
  \/ ServerMain
  \/ \E r \in Requests : PredictHandler(r)

Spec == Init /\ [][Next]_vars

\* ------------------------------------------------------------------------
\* A process started with SUPABASE_URL or SUPABASE_KEY missing whose
\* environment is corrected while it runs
\* ------------------------------------------------------------------------

InitEnv ==
  /\ Init
  /\ ~env.SUPABASE_URL \/ ~env.SUPABASE_KEY

\* the variables are set from outside; os.Getenv returns them from then on
CorrectEnv ==
  /\ ~env.SUPABASE_URL \/ ~env.SUPABASE_KEY \/ ~env.HF_TOKEN
  /\ env' = [SUPABASE_URL |-> TRUE, SUPABASE_KEY |-> TRUE, HF_TOKEN |-> TRUE]
  /\ UNCHANGED <<mode, mainPc, serverInitOnce, serverInitErr, initOnce, initErr,
                 SupabaseClient, clientsCreated>>
  /\ UNCHANGED <<storeVars, reqVars, scoreVars>>

NextEnv == Next \/ CorrectEnv

SpecEnv == InitEnv /\ [][NextEnv]_vars

\* The same with progress: a step of a request that can be taken is taken
\* in the end, since InitClients and PredictChurn compute without waiting,
\* the client of CallHuggingFaceAPI has a timeout of 30 seconds and the
\* calls of the store are taken to return
\* the number of requests that are followed to their end
NumLive == 2

LiveRequests == 1..NumLive

NextLive ==
  \/ ServerMain
  \/ \E r \in LiveRequests : PredictHandler(r)

Fairness == \A r \in LiveRequests : WF_vars(PredictHandler(r))

SpecLive == Init /\ [][NextLive]_vars /\ Fairness

\* ------------------------------------------------------------------------
\* The store with deletions: rows of customer_feedback are deleted by hand
\* while the serverless handler runs (the program itself never deletes),
\* ON DELETE CASCADE removes the predictions that reference them
\* ------------------------------------------------------------------------

\* mutant: the reference has no ON DELETE CASCADE
MutCascade(predictions, id) == predictions

\* ON DELETE CASCADE: the predictions left when feedback row id is deleted
Cascade(predictions, id) ==
  {p \in predictions : p.customer_feedback_id # id}

\* DELETE FROM customer_feedback WHERE id = row.id
DeleteFeedback ==
  /\ \E row \in customer_feedback :
       /\ customer_feedback' = customer_feedback \ {row}
       /\ churn_predictions' = Cascade(churn_predictions, row.id)
  /\ UNCHANGED nextUuid
  /\ UNCHANGED <<procVars, reqVars, scoreVars>>

\* the serverless deployment: the platform calls PredictHandler, there is
\* no main()
InitDelete ==
  /\ Init
  /\ mode = "vercel"

NextDelete ==
  \/ \E r \in Requests : PredictHandler(r)
  \/ DeleteFeedback

SpecDelete == InitDelete /\ [][NextDelete]_vars

\* ------------------------------------------------------------------------
\* Direct calls of PredictChurn (as main_test.go makes them)
\* ------------------------------------------------------------------------

\* feedback texts: empty, blank, each keyword in some letter case, a keyword
\* inside a longer text, texts without keyword, and two texts with
\* accented letters, one of them with a keyword
ScoreTexts ==
  { <<>>,
    <<" ">>,
    <<"b","a","d">>,
    <<"B","A","D">>,
    <<"P","o","o","r">>,
    <<"t","E","r","R","i","B","l","E">>,
    <<"s","o"," ","u","n","h","a","p","p","y","!">>,
    <<"o","k">>,
    <<"b","a"," ","d">>,
    <<"u","n","h","a","p","p">>,
    <<"N","o","t"," ","g","o","o","d">>,
    <<"a","b","a","d">>,
    <<"T","r","è","s"," ","B","A","D">>,
    <<"É","T","É">> }

\* sentiment labels: the four of the handler, NEGATIVE in other letter
\* cases, the empty label
ScoreSentiments ==
  { NEGATIVE, POSITIVE, NEUTRAL, UNKNOWN, <<>>,
    <<"n","e","g","a","t","i","v","e">>,
    <<"N","e","g","a","t","i","v","e">> }

ScoreTopics == { <<>>, <<"service">> }

\* the ratings the handler lets through
ScoreRatings == 0..10

ScoreInputs ==
  [NLSScore : ScoreRatings, Feedback : ScoreTexts,
   CommentSentiment : ScoreSentiments, CommentTopics : ScoreTopics]

InitScore ==
  /\ mode = "vercel"
  /\ env = [SUPABASE_URL |-> TRUE, SUPABASE_KEY |-> TRUE, HF_TOKEN |-> TRUE]
  /\ mainPc = "serving"
  /\ serverInitOnce = "fresh"
  /\ serverInitErr = "nil"
  /\ initOnce = "fresh"
  /\ initErr = "nil"
  /\ SupabaseClient = 0
  /\ clientsCreated = 0
  /\ InitStore
  /\ InitRequests
  /\ data \in ScoreInputs
  /\ prediction = NoPrediction
  /\ otherData = NoData
  /\ otherPrediction = NoPrediction
  /\ fnCall = NoCall
  /\ fnReturn = NoReturn

\* prediction := PredictChurn(data)
CallPredictChurn ==
  /\ prediction = NoPrediction
  /\ prediction' = PredictChurn(data)
  /\ UNCHANGED <<procVars, storeVars, reqVars, data, otherData, otherPrediction, fnCall, fnReturn>>

NextScore == CallPredictChurn

SpecScore == InitScore /\ [][NextScore]_vars

\* ------------------------------------------------------------------------
\* Two direct calls of PredictChurn on data that differ in CommentTopics only
\* ------------------------------------------------------------------------

InitTopics ==
  /\ mode = "vercel"
  /\ env = [SUPABASE_URL |-> TRUE, SUPABASE_KEY |-> TRUE, HF_TOKEN |-> TRUE]
  /\ mainPc = "serving"
  /\ serverInitOnce = "fresh"
  /\ serverInitErr = "nil"
  /\ initOnce = "fresh"
  /\ initErr = "nil"
  /\ SupabaseClient = 0
  /\ clientsCreated = 0
  /\ InitStore
  /\ InitRequests
  /\ data \in ScoreInputs
  /\ prediction = NoPrediction
  /\ \E t \in ScoreTopics \ {data.CommentTopics} :
       otherData = [data EXCEPT !.CommentTopics = t]
  /\ otherPrediction = NoPrediction
  /\ fnCall = NoCall
  /\ fnReturn = NoReturn

\* otherPrediction := PredictChurn(otherData)
CallPredictChurnOther ==
  /\ otherPrediction = NoPrediction
  /\ otherPrediction' = PredictChurn(otherData)
  /\ UNCHANGED <<procVars, storeVars, reqVars, data, prediction, otherData, fnCall, fnReturn>>

NextTopics == CallPredictChurn \/ CallPredictChurnOther

SpecTopics == InitTopics /\ [][NextTopics]_vars

\* ------------------------------------------------------------------------
\* PredictChurn of package main (go-churn-agent), which has no sentiment,
\* called directly as main_test.go does
\* ------------------------------------------------------------------------

\* the loop over negativeKeywords; it has no test of an empty Feedback
MainHasNegativeFeedback(feedback) ==
  \E k \in DOMAIN negativeKeywords :
    Contains(ToLower(feedback), negativeKeywords[k])

\* mutant: the bound of the low ratings is inclusive
MutMainPredictChurn(d) ==
  IF d.NLSScore <= 5 /\ MainHasNegativeFeedback(d.Feedback)
  THEN [CustomerID |-> 0, ChurnProbability |-> 80,
        Reason |-> "Low NLS score and negative feedback.", PredictedAt |-> "now"]
  ELSE IF d.NLSScore >= 8
  THEN [CustomerID |-> 0, ChurnProbability |-> 10,
        Reason |-> "High NLS score.", PredictedAt |-> "now"]
  ELSE [CustomerID |-> 0, ChurnProbability |-> 40,
        Reason |-> "Moderate NLS score or neutral feedback.", PredictedAt |-> "now"]

\* d: [NLSScore, Feedback]
MainPredictChurn(d) ==
  IF d.NLSScore < 5 /\ MainHasNegativeFeedback(d.Feedback)
  THEN [CustomerID |-> 0, ChurnProbability |-> 80,
        Reason |-> "Low NLS score and negative feedback.", PredictedAt |-> "now"]
  ELSE IF d.NLSScore >= 8
  THEN [CustomerID |-> 0, ChurnProbability |-> 10,
        Reason |-> "High NLS score.", PredictedAt |-> "now"]
  ELSE [CustomerID |-> 0, ChurnProbability |-> 40,
        Reason |-> "Moderate NLS score or neutral feedback.", PredictedAt |-> "now"]

MainScoreInputs == [NLSScore : ScoreRatings, Feedback : ScoreTexts]

InitMainScore ==
  /\ mode = "vercel"
  /\ env = [SUPABASE_URL |-> TRUE, SUPABASE_KEY |-> TRUE, HF_TOKEN |-> TRUE]
  /\ mainPc = "serving"
  /\ serverInitOnce = "fresh"
  /\ serverInitErr = "nil"
  /\ initOnce = "fresh"
  /\ initErr = "nil"
  /\ SupabaseClient = 0
  /\ clientsCreated = 0
  /\ InitStore
  /\ InitRequests
  /\ data \in MainScoreInputs
  /\ prediction = NoPrediction
  /\ otherData = NoData
  /\ otherPrediction = NoPrediction
  /\ fnCall = NoCall
  /\ fnReturn = NoReturn

\* prediction := PredictChurn(customerData)
CallMainPredictChurn ==
  /\ prediction = NoPrediction
  /\ prediction' = MainPredictChurn(data)
  /\ UNCHANGED <<procVars, storeVars, reqVars, data, otherData, otherPrediction, fnCall, fnReturn>>

NextMainScore == CallMainPredictChurn

SpecMainScore == InitMainScore /\ [][NextMainScore]_vars

\* ------------------------------------------------------------------------
\* GetSentimentFromHF and GetTopicsFromHF called directly, on replies of the
\* inference endpoint of every shape
\* ------------------------------------------------------------------------

\* the longest list of pairs in a reply
MaxPairs == 3

\* a label no model of the program knows
LABEL_1 == <<"L","A","B","E","L","_","1">>

\* [][]struct{Label, Score}: the lists of pairs the sentiment model returns
SentimentPairs == [Label : {POSITIVE, NEGATIVE, LABEL_1}, Score : {0, 50, 98}]

SentimentPairLists == UNION { [1..n -> SentimentPairs] : n \in 1..MaxPairs }

DirectSentimentReplies ==
  SentimentReplies \cup
  { [kind |-> "ok", valid |-> TRUE, value |-> <<l>>] : l \in SentimentPairLists }

\* Labels and Scores of a zero-shot reply, given as a list of pairs
TopicPairs == [Label : {"service", "pricing", "refund"}, Score : {30, 80, 81}]

TopicPairLists == UNION { [1..n -> TopicPairs] : n \in 1..MaxPairs }

ZeroShot(l) ==
  [Labels |-> [i \in 1..Len(l) |-> l[i].Label],
   Scores |-> [i \in 1..Len(l) |-> l[i].Score]]

\* with them a reply without labels and one with fewer scores than labels
DirectTopicReplies ==
  TopicReplies \cup
  { [kind |-> "ok", valid |-> TRUE, value |-> ZeroShot(l)] : l \in TopicPairLists } \cup
  { [kind |-> "ok", valid |-> TRUE, value |-> [Labels |-> <<>>, Scores |-> <<>>]],
    [kind |-> "ok", valid |-> TRUE,
     value |-> [Labels |-> <<"service", "pricing">>, Scores |-> <<93>>]] }

\* a text, a space, a form feed and a no-break space around a line feed
DirectTexts == { <<"o","k">>, <<" ">>, <<"\f">>, <<" ", "\n", " ">> }

DirectCalls ==
  [fn : {"GetSentimentFromHF"}, text : DirectTexts, candidates : {<<>>},
   token : BOOLEAN, reply : DirectSentimentReplies]
  \cup
  [fn : {"GetTopicsFromHF"}, text : DirectTexts, candidates : {candidateTopics, <<>>},
   token : BOOLEAN, reply : DirectTopicReplies]

InitEnrich ==
  /\ mode = "vercel"
  /\ env = [SUPABASE_URL |-> TRUE, SUPABASE_KEY |-> TRUE, HF_TOKEN |-> TRUE]
  /\ mainPc = "serving"
  /\ serverInitOnce = "fresh"
  /\ serverInitErr = "nil"
  /\ initOnce = "fresh"
  /\ initErr = "nil"
  /\ SupabaseClient = 0
  /\ clientsCreated = 0
  /\ InitStore
  /\ InitRequests
  /\ data = NoData
  /\ prediction = NoPrediction
  /\ otherData = NoData
  /\ otherPrediction = NoPrediction
  /\ fnCall \in DirectCalls
  /\ fnReturn = NoReturn

\* sentiment, err := appcore.GetSentimentFromHF(text)
CallGetSentimentFromHF ==
  /\ fnCall.fn = "GetSentimentFromHF"
  /\ fnReturn = NoReturn
  /\ LET out == GetSentimentFromHF(fnCall.text, fnCall.token, fnCall.reply) IN
       fnReturn' = [NoReturn EXCEPT !.label = out.label, !.err = out.err,
                                    !.called = out.called]
  /\ UNCHANGED <<procVars, storeVars, reqVars, data, prediction, otherData,
                 otherPrediction, fnCall>>

\* topics, err := appcore.GetTopicsFromHF(text, candidates)
CallGetTopicsFromHF ==
  /\ fnCall.fn = "GetTopicsFromHF"
  /\ fnReturn = NoReturn
  /\ LET out == GetTopicsFromHF(fnCall.text, fnCall.candidates, fnCall.token,
                                fnCall.reply) IN
       fnReturn' = [NoReturn EXCEPT !.topics = out.topics, !.err = out.err,
                                    !.called = out.called]
  /\ UNCHANGED <<procVars, storeVars, reqVars, data, prediction, otherData,
                 otherPrediction, fnCall>>

NextEnrich == CallGetSentimentFromHF \/ CallGetTopicsFromHF

SpecEnrich == InitEnrich /\ [][NextEnrich]_vars

\* ------------------------------------------------------------------------
\* Properties
\* ------------------------------------------------------------------------

\* position of the first occurrence of e in seq, 0 when absent
Pos(seq, e) ==
  IF \E i \in DOMAIN seq : seq[i] = e
  THEN CHOOSE i \in DOMAIN seq : seq[i] = e /\ \A j \in 1..(i - 1) : seq[j] # e
  ELSE 0

Has(seq, e) == \E i \in DOMAIN seq : seq[i] = e

Count(seq, e) == Cardinality({i \in DOMAIN seq : seq[i] = e})

\* two characters that are equal up to letter case
SameLetter(a, b) ==
  \/ a = b
  \/ \E i \in DOMAIN UpperLetters : {a, b} = {UpperLetters[i], LowerLetters[i]}

EqualIgnoringCase(s, t) ==
  /\ Len(s) = Len(t)
  /\ \A i \in 1..Len(s) : SameLetter(s[i], t[i])

\* the negative-keyword test of the rule table
KeywordMatch(text) ==
  \E kw \in { <<"b","a","d">>, <<"p","o","o","r">>,
              <<"t","e","r","r","i","b","l","e">>, <<"u","n","h","a","p","p","y">> } :
    \E i \in 1..Len(text) :
      /\ i + Len(kw) - 1 <= Len(text)
      /\ \A j \in 1..Len(kw) : SameLetter(text[i + j - 1], kw[j])

\* the rule table: probability (in hundredths) and reason
RuleTable(rating, high) ==
  IF high THEN <<80, "Low NLS score and/or negative feedback/sentiment.">>
  ELSE IF rating >= 8 THEN <<10, "High NLS score.">>
  ELSE <<40, "Moderate NLS score or neutral feedback/sentiment.">>

\* C1 as stated: the result of PredictChurn is the row of the rule table
\* selected by (rating < 5 and keyword match) or (rating < 3 and the label
\* is exactly NEGATIVE), and the probability is one of 0.1, 0.4, 0.8.
C1_RuleTableExactLabel ==
  prediction # NoPrediction =>
    /\ <<prediction.ChurnProbability, prediction.Reason>> =
         RuleTable(data.NLSScore,
                   \/ data.NLSScore < 5 /\ KeywordMatch(data.Feedback)
                   \/ data.NLSScore < 3 /\ data.CommentSentiment = NEGATIVE)
    /\ prediction.ChurnProbability \in {10, 40, 80}

\* C1 amended: the same with the sentiment label compared to NEGATIVE after
\* upper-casing it, so that NEGATIVE in any letter case counts.
C1_RuleTable ==
  prediction # NoPrediction =>
    /\ <<prediction.ChurnProbability, prediction.Reason>> =
         RuleTable(data.NLSScore,
                   \/ data.NLSScore < 5 /\ KeywordMatch(data.Feedback)
                   \/ data.NLSScore < 3 /\ EqualIgnoringCase(data.CommentSentiment, NEGATIVE))
    /\ prediction.ChurnProbability \in {10, 40, 80}

\* witness of C1: a rating below 3 with a lower-case negative label and no
\* keyword was scored 0.8
C1_Witness ==
  /\ prediction # NoPrediction
  /\ data.NLSScore = 2
  /\ data.CommentSentiment = <<"n","e","g","a","t","i","v","e">>
  /\ ~KeywordMatch(data.Feedback)
  /\ prediction.ChurnProbability = 80

RatingInvalid(request) ==
  \/ request.NLSScore = <<>>
  \/ request.NLSScore[1] < 0
  \/ request.NLSScore[1] > 10

NothingStored == [feedback_id |-> 0, prediction_id |-> 0]

\* C2: a request whose rating is absent or outside 0..10 never makes an
\* inference or storage call and no row is inserted for it; when it reaches
\* the rating check (the handle was initialised, the method is POST and the
\* body decodes) it is answered 400 with the message of its case.
C2_InvalidRatingRejected ==
  \A r \in Requests :
    (req[r] # NoRequest /\ req[r].JSONValid /\ RatingInvalid(req[r])) =>
      /\ trace[r] = <<>>
      /\ stored[r] = NothingStored
      /\ pc[r] \in {"InitClients", "initialize", "done"}
      /\ (pc[r] = "done" /\ initErr = "nil" /\ req[r].Method = "POST") =>
           /\ resp[r].status = 400
           /\ resp[r].error = IF req[r].NLSScore = <<>>
                              THEN "NLS score is required."
                              ELSE "NLS score must be between 0 and 10."

\* witness of C2: a request with rating 11 and one without rating were
\* rejected with 400 while the store holds a row of another request
C2_Witness ==
  \E r1, r2 \in Requests :
    /\ pc[r1] = "done" /\ req[r1].NLSScore = <<11>> /\ resp[r1].status = 400
    /\ pc[r2] = "done" /\ req[r2].Method = "POST" /\ req[r2].JSONValid
    /\ req[r2].NLSScore = <<>> /\ resp[r2].error = "NLS score is required."

\* C3: every prediction row was written by a request whose feedback insert
\* returned an identifier, and its customer_feedback_id is that identifier,
\* which no other request was given.
C3_ParentReference ==
  \A p \in churn_predictions :
    \E r \in Requests :
      /\ stored[r].prediction_id = p.id
      /\ stored[r].feedback_id # 0
      /\ Has(trace[r], "StoreCustomerData: ok")
      /\ p.customer_feedback_id = stored[r].feedback_id
      /\ \A r2 \in Requests \ {r} : stored[r2].feedback_id # p.customer_feedback_id

\* witness of C3: two requests interleaved, the one whose feedback row was
\* inserted first wrote its prediction last
C3_Witness ==
  \E r1, r2 \in Requests :
    /\ stored[r1].prediction_id # 0 /\ stored[r2].prediction_id # 0
    /\ stored[r1].feedback_id < stored[r2].feedback_id
    /\ stored[r1].prediction_id > stored[r2].prediction_id

\* C4: a request calls StoreChurnPrediction, or is about to, only after its
\* StoreCustomerData returned without error and with the identifier of the
\* row the store inserted for it.
C4_PredictionAfterFeedback ==
  \A r \in Requests :
    (pc[r] = "StoreChurnPrediction" \/ Has(trace[r], "StoreChurnPrediction")) =>
      /\ Has(trace[r], "StoreCustomerData: ok")
      /\ ~Has(trace[r], "StoreCustomerData: error")
      /\ Has(trace[r], "StoreChurnPrediction") =>
           Pos(trace[r], "StoreCustomerData: ok") < Pos(trace[r], "StoreChurnPrediction")
      /\ customerID[r] # 0
      /\ customerID[r] = stored[r].feedback_id
      /\ \E row \in customer_feedback : row.id = customerID[r]

\* witness of C4: a request called StoreChurnPrediction after its feedback
\* insert returned, while the feedback insert of another request failed
C4_Witness ==
  \E r1, r2 \in Requests :
    /\ Has(trace[r1], "StoreChurnPrediction")
    /\ Has(trace[r1], "StoreCustomerData: ok")
    /\ Has(trace[r2], "StoreCustomerData: error")

\* the feedback row inserted for request r, as a set
FeedbackRowOf(r) == {row \in customer_feedback : row.id = stored[r].feedback_id}

\* C5: a failed inference call does not end the request.  After a failed
\* sentiment call the sentiment is UNKNOWN, after a failed topic call the
\* topic set is empty (without HF_TOKEN every call fails); the request goes
\* on to StoreCustomerData with these values, to StoreChurnPrediction when
\* that succeeded, and is answered 200 when both succeeded.
C5_InferenceFailureDegrades ==
  \A r \in Requests :
    /\ (~env.HF_TOKEN /\ Has(trace[r], "CallHuggingFaceAPI sentiment")) =>
         errSentiment[r] = "error"
    /\ (~env.HF_TOKEN /\ Has(trace[r], "CallHuggingFaceAPI topics")) =>
         errTopics[r] = "error"
    /\ errSentiment[r] = "error" =>
         /\ sentiment[r] = UNKNOWN
         /\ \A row \in FeedbackRowOf(r) : row.comment_sentiment = UNKNOWN
    /\ errTopics[r] = "error" =>
         /\ topics[r] = <<>>
         /\ \A row \in FeedbackRowOf(r) : row.comment_topics = <<>>
    /\ (pc[r] = "done" /\ (errSentiment[r] = "error" \/ errTopics[r] = "error")) =>
         /\ Has(trace[r], "StoreCustomerData")
         /\ Has(trace[r], "StoreCustomerData: ok") => Has(trace[r], "StoreChurnPrediction")
         /\ (Has(trace[r], "StoreCustomerData: ok")
               /\ Has(trace[r], "StoreChurnPrediction: ok")) =>
              /\ resp[r].status = 200
              /\ errSentiment[r] = "error" => resp[r].comment_sentiment = UNKNOWN
              /\ errTopics[r] = "error" => resp[r].comment_topics = <<>>

\* witness of C5: without HF_TOKEN both calls of a request failed and it was
\* answered 200 after both inserts
C5_Witness ==
  \E r \in Requests :
    /\ ~env.HF_TOKEN
    /\ pc[r] = "done"
    /\ errSentiment[r] = "error" /\ errTopics[r] = "error"
    /\ FeedbackRowOf(r) # {}
    /\ resp[r].status = 200

\* C6 as stated: at most one storage handle is ever constructed, and a
\* request is past initialize() only when the initialisation has completed.
C6_HandleCreatedAtMostOnce ==
  /\ clientsCreated <= 1
  /\ \A r \in Requests : pc[r] \notin {"idle", "InitClients"} => initOnce = "done"

\* C7: when StoreChurnPrediction failed after StoreCustomerData succeeded,
\* the request is over with 500 "Failed to store churn prediction.", its
\* feedback row is in the store and no prediction row references it.
C7_OrphanFeedbackRow ==
  \A r \in Requests :
    Has(trace[r], "StoreChurnPrediction: error") =>
      /\ pc[r] = "done"
      /\ resp[r].status = 500
      /\ resp[r].error = "Failed to store churn prediction."
      /\ Has(trace[r], "StoreCustomerData: ok")
      /\ \E row \in customer_feedback : row.id = customerID[r]
      /\ \A p \in churn_predictions : p.customer_feedback_id # customerID[r]
      /\ stored[r].prediction_id = 0

\* witness of C7: a prediction insert failed while another request wrote
\* both of its rows
C7_Witness ==
  \E r1, r2 \in Requests :
    /\ Has(trace[r1], "StoreChurnPrediction: error")
    /\ stored[r1].feedback_id # 0
    /\ stored[r2].prediction_id # 0

\* C8: when StoreCustomerData failed, the request is over with 500 "Failed
\* to store customer data." and never calls StoreChurnPrediction.
C8_FeedbackFailureShortCircuits ==
  \A r \in Requests :
    Has(trace[r], "StoreCustomerData: error") =>
      /\ pc[r] = "done"
      /\ resp[r].status = 500
      /\ resp[r].error = "Failed to store customer data."
      /\ ~Has(trace[r], "StoreChurnPrediction")
      /\ stored[r].prediction_id = 0

\* witness of C8: a request whose StoreCustomerData failed is over
\* without a feedback row
C8_Witness ==
  \E r \in Requests :
    /\ Has(trace[r], "StoreCustomerData: error")
    /\ stored[r].feedback_id = 0
    /\ pc[r] = "done"

\* C9 as stated: PredictChurn is computed before StoreCustomerData begins.
C9_ScoreBeforeFeedbackInsert ==
  \A r \in Requests :
    Has(trace[r], "StoreCustomerData") =>
      /\ Has(trace[r], "PredictChurn")
      /\ Pos(trace[r], "PredictChurn") < Pos(trace[r], "StoreCustomerData")

\* the external calls of the enrichment
EnrichmentCalls == {"CallHuggingFaceAPI sentiment", "CallHuggingFaceAPI topics"}

\* C9 amended: the steps run in the order checks, sentiment, topics,
\* StoreCustomerData, PredictChurn, StoreChurnPrediction, response:
\* PredictChurn is computed after StoreCustomerData returned without error
\* and before StoreChurnPrediction begins.
C9_StepOrder ==
  \A r \in Requests :
    /\ trace[r] # <<>> => Validate(initErr, SupabaseClient, req[r]) = NoResponse
    /\ (Has(trace[r], "CallHuggingFaceAPI sentiment")
          /\ Has(trace[r], "CallHuggingFaceAPI topics")) =>
         Pos(trace[r], "CallHuggingFaceAPI sentiment")
           < Pos(trace[r], "CallHuggingFaceAPI topics")
    /\ Has(trace[r], "StoreCustomerData") =>
         /\ pc[r] \notin {"GetSentimentFromHF", "GetTopicsFromHF"}
         /\ \A i \in DOMAIN trace[r] :
              trace[r][i] \in EnrichmentCalls => i < Pos(trace[r], "StoreCustomerData")
    /\ Has(trace[r], "PredictChurn") =>
         /\ Has(trace[r], "StoreCustomerData: ok")
         /\ Pos(trace[r], "StoreCustomerData: ok") < Pos(trace[r], "PredictChurn")
    /\ Has(trace[r], "StoreChurnPrediction") =>
         /\ Has(trace[r], "PredictChurn")
         /\ Pos(trace[r], "PredictChurn") < Pos(trace[r], "StoreChurnPrediction")
    /\ resp[r] # NoResponse => pc[r] = "done"

\* witness of C9: a request ran every step
C9_Witness ==
  \E r \in Requests :
    /\ trace[r] = <<"CallHuggingFaceAPI sentiment", "CallHuggingFaceAPI topics",
                    "StoreCustomerData", "StoreCustomerData: ok", "PredictChurn",
                    "StoreChurnPrediction", "StoreChurnPrediction: ok">>
    /\ resp[r].status = 200

\* C10: within one request the sentiment call, the topic call, the feedback
\* insert and the prediction insert are each made at most once.
C10_NoRetry ==
  \A r \in Requests :
    \A call \in EnrichmentCalls \cup {"StoreCustomerData", "StoreChurnPrediction"} :
      Count(trace[r], call) <= 1

\* witness of C10: a request is over after its sentiment call and its
\* prediction insert failed, another after its feedback insert failed
C10_Witness ==
  \E r1, r2 \in Requests :
    /\ pc[r1] = "done" /\ errSentiment[r1] = "error"
    /\ Has(trace[r1], "StoreChurnPrediction: error")
    /\ pc[r2] = "done" /\ errTopics[r2] = "error"
    /\ Has(trace[r2], "StoreCustomerData: error")

\* a text that is empty or holds white space only
Blank(text) == \A i \in 1..Len(text) : text[i] \in WhiteSpace

\* a request that passes the method, decoding and rating checks
RatingValid(request) ==
  /\ request # NoRequest
  /\ request.Method = "POST"
  /\ request.JSONValid
  /\ ~RatingInvalid(request)

\* C11: a request with a valid rating and a blank feedback text makes no
\* call to the inference endpoint, carries sentiment NEUTRAL and no topics
\* without an enrichment error once enrichment is over, and is accepted: it
\* goes on to the feedback insert, the row it inserts has sentiment NEUTRAL
\* and no topics, and it is not answered 400.
C11_BlankTextNeutral ==
  \A r \in Requests :
    (RatingValid(req[r]) /\ Blank(req[r].FeedbackText)) =>
      /\ \A call \in EnrichmentCalls : ~Has(trace[r], call)
      /\ pc[r] \in {"StoreCustomerData", "PredictChurn", "StoreChurnPrediction", "done"} =>
           /\ initErr = "nil" =>
                /\ sentiment[r] = NEUTRAL /\ errSentiment[r] = "nil"
                /\ topics[r] = <<>> /\ errTopics[r] = "nil"
                /\ Has(trace[r], "StoreCustomerData") \/ pc[r] = "StoreCustomerData"
                /\ resp[r].status # 400
           /\ \A row \in FeedbackRowOf(r) :
                row.comment_sentiment = NEUTRAL /\ row.comment_topics = <<>>

\* witness of C11: a request with a white-space text and one with an empty
\* text were answered 200 with sentiment NEUTRAL and no topics while the
\* token of the inference endpoint is set
C11_Witness ==
  \E r1, r2 \in Requests :
    /\ env.HF_TOKEN
    /\ RatingValid(req[r1]) /\ req[r1].FeedbackText = <<" ", "\f">>
    /\ RatingValid(req[r2]) /\ req[r2].FeedbackText = <<>>
    /\ \A r \in {r1, r2} :
         /\ resp[r].status = 200
         /\ resp[r].comment_sentiment = NEUTRAL
         /\ resp[r].comment_topics = <<>>
         /\ FeedbackRowOf(r) # {}

\* C12: a request with a valid rating and a blank feedback text that got its
\* response from an initialised handler was answered 400 with the message
\* that the feedback text cannot be empty, and made no storage call and
\* inserted no row.
C12_BlankTextRejected ==
  \A r \in Requests :
    (RatingValid(req[r]) /\ Blank(req[r].FeedbackText)
       /\ pc[r] = "done" /\ initErr = "nil") =>
      /\ resp[r].status = 400
      /\ resp[r].error \in {"Feedback text cannot be empty",
                            "Feedback text cannot be empty."}
      /\ ~Has(trace[r], "StoreCustomerData")
      /\ stored[r] = NothingStored

\* the message of each kind of error response
GenericMessages ==
  { "Server initialization failed: ",
    "Supabase client not available due to initialization error.",
    "Only POST method is allowed.",
    "Invalid JSON request body.",
    "NLS score is required.",
    "NLS score must be between 0 and 10.",
    "Failed to store customer data.",
    "Failed to store churn prediction." }

\* C13: the body of every error response is one of the fixed messages and
\* nothing else: no text of an underlying error is appended to it, so that
\* the response depends on the kind of the error only.
C13_NoInternalDetail ==
  \A r \in Requests :
    (pc[r] = "done" /\ resp[r].status # 200) =>
      /\ resp[r].error \in GenericMessages
      /\ resp[r].detail = ""

\* C14: once the construction of the storage handle has failed, a request
\* goes from the initialization check to its response: it is answered 500
\* with the initialization-failure message whatever its method, body and
\* rating are, and it makes no inference call, no scoring and no storage
\* call and inserts no row.
C14_InitFailureBlocksRequests ==
  initErr # "nil" =>
    \A r \in Requests :
      /\ pc[r] \in {"idle", "initialize", "done"}
      /\ trace[r] = <<>>
      /\ stored[r] = NothingStored
      /\ pc[r] = "done" =>
           /\ resp[r].status = 500
           /\ resp[r].error = "Server initialization failed: "

\* witness of C14: after a failed construction a GET request and a POST
\* request with a valid rating were both answered 500
C14_Witness ==
  \E r1, r2 \in Requests :
    /\ initErr # "nil" /\ SupabaseClient = 0
    /\ pc[r1] = "done" /\ req[r1].Method = "GET" /\ resp[r1].status = 500
    /\ pc[r2] = "done" /\ RatingValid(req[r2]) /\ resp[r2].status = 500

\* request r was served: the handler took it past its initialization check
Served(r) ==
  /\ pc[r] \notin {"idle", "InitClients", "initialize"}
  /\ ~(pc[r] = "done" /\ resp[r].error = "Server initialization failed: ")

\* C15: when one of SUPABASE_URL, SUPABASE_KEY and HF_TOKEN is not set, the
\* application does not start: no request is served (a request that is
\* only told that the initialization failed does not count as served).
C15_MissingVariableStopsStart ==
  (~env.SUPABASE_URL \/ ~env.SUPABASE_KEY \/ ~env.HF_TOKEN) =>
    \A r \in Requests : ~Served(r)

\* C16: two calls of PredictChurn on data with the same rating, the same
\* feedback text and the same sentiment label return the same probability
\* and the same reason, whatever the topics of the two are.
C16_TopicsNotConsulted ==
  ( /\ prediction # NoPrediction /\ otherPrediction # NoPrediction
    /\ data.NLSScore = otherData.NLSScore
    /\ data.Feedback = otherData.Feedback
    /\ data.CommentSentiment = otherData.CommentSentiment ) =>
      /\ prediction.ChurnProbability = otherPrediction.ChurnProbability
      /\ prediction.Reason = otherPrediction.Reason

\* witness of C16: a low rating without keyword and with a positive label
\* was scored twice, once without topics and once with a topic
C16_Witness ==
  /\ prediction # NoPrediction /\ otherPrediction # NoPrediction
  /\ data.NLSScore = 2 /\ data.Feedback = <<"o","k">>
  /\ data.CommentSentiment = POSITIVE
  /\ data.CommentTopics = <<>> /\ otherData.CommentTopics = <<"service">>
  /\ [otherData EXCEPT !.CommentTopics = <<>>] = data
  /\ otherPrediction.ChurnProbability = 40

\* C17: a 200 response carries as customer_id the identifier of the feedback
\* row inserted for its request, as comment_sentiment and comment_topics the
\* values of that row, and as churn_probability and reason the result of
\* PredictChurn for the request's rating and text and that sentiment.
C17_ResponseFields ==
  \A r \in Requests :
    resp[r].status = 200 =>
      /\ resp[r].customer_id # 0
      /\ resp[r].customer_id = stored[r].feedback_id
      /\ \E row \in customer_feedback :
           /\ row.id = resp[r].customer_id
           /\ row.nls_score = req[r].NLSScore[1]
           /\ row.feedback_text = req[r].FeedbackText
           /\ resp[r].comment_sentiment = row.comment_sentiment
           /\ resp[r].comment_topics = row.comment_topics
           /\ LET p == PredictChurn([NLSScore |-> req[r].NLSScore[1],
                                     Feedback |-> req[r].FeedbackText,
                                     CommentSentiment |-> row.comment_sentiment,
                                     CommentTopics |-> row.comment_topics])
              IN /\ resp[r].churn_probability = p.ChurnProbability
                 /\ resp[r].reason = p.Reason

\* witness of C17: a request with rating 0 got a 200 response with
\* probability 0.8, sentiment NEGATIVE and a topic, and its customer_id is
\* not the first identifier of the store
C17_Witness ==
  \E r \in Requests :
    /\ resp[r].status = 200
    /\ req[r].NLSScore = <<0>>
    /\ resp[r].customer_id > 1
    /\ resp[r].churn_probability = 80
    /\ resp[r].comment_sentiment = NEGATIVE
    /\ resp[r].comment_topics = <<"service">>

\* C18: the result of the PredictChurn of package main is 0.8 with "Low NLS
\* score and negative feedback." when the rating is below 5 and the text
\* holds a negative keyword, else 0.1 with "High NLS score." when the rating
\* is at least 8, else 0.4 with "Moderate NLS score or neutral feedback.",
\* and its PredictedAt is set.
C18_MainRuleTable ==
  prediction # NoPrediction =>
    /\ <<prediction.ChurnProbability, prediction.Reason>> =
         IF data.NLSScore < 5 /\ KeywordMatch(data.Feedback)
         THEN <<80, "Low NLS score and negative feedback.">>
         ELSE IF data.NLSScore >= 8
         THEN <<10, "High NLS score.">>
         ELSE <<40, "Moderate NLS score or neutral feedback.">>
    /\ prediction.PredictedAt # NoPrediction.PredictedAt

\* witness of C18: rating 5 with a keyword in the text was scored 0.4
C18_Witness ==
  /\ prediction # NoPrediction
  /\ data.NLSScore = 5
  /\ data.Feedback = <<"s","o"," ","u","n","h","a","p","p","y","!">>
  /\ prediction.ChurnProbability = 40
  /\ prediction.Reason = "Moderate NLS score or neutral feedback."

\* C19: every row of churn_predictions references a row of
\* customer_feedback that exists, in every state reached by requests and
\* deletions of feedback rows.
C19_ParentExists ==
  \A p \in churn_predictions :
    \E row \in customer_feedback : row.id = p.customer_feedback_id

\* witness of C19: the feedback row of a request that stored both rows was
\* deleted and its prediction went with it, while the prediction of another
\* request is there
C19_Witness ==
  \E r1, r2 \in Requests :
    /\ stored[r1].feedback_id # 0 /\ stored[r1].prediction_id # 0
    /\ \A row \in customer_feedback : row.id # stored[r1].feedback_id
    /\ \A p \in churn_predictions : p.id # stored[r1].prediction_id
    /\ stored[r2].feedback_id # 0 /\ stored[r2].prediction_id # 0
    /\ \E p \in churn_predictions : p.id = stored[r2].prediction_id

\* in every state: a request answered 200 made one feedback insert and one
\* prediction insert, the table customer_feedback holds one row under the
\* identifier it was given, churn_predictions holds one row that references
\* it, which is the row of this request, and each table holds as many rows
\* as there were inserts into it
OneRowEach ==
  /\ \A r \in Requests :
       resp[r].status = 200 =>
         /\ Count(trace[r], "StoreCustomerData") = 1
         /\ Count(trace[r], "StoreChurnPrediction") = 1
         /\ Cardinality({row \in customer_feedback :
                           row.id = stored[r].feedback_id}) = 1
         /\ Cardinality({p \in churn_predictions :
                           p.customer_feedback_id = stored[r].feedback_id}) = 1
         /\ \A p \in churn_predictions :
              p.customer_feedback_id = stored[r].feedback_id =>
                p.id = stored[r].prediction_id
  /\ Cardinality(customer_feedback) =
       Cardinality({r \in Requests : stored[r].feedback_id # 0})
  /\ Cardinality(churn_predictions) =
       Cardinality({r \in Requests : stored[r].prediction_id # 0})

\* in every step: the rows that exist stay as they are, and a row that is
\* added has an identifier no existing row of its table has
RowsOnlyAdded ==
  /\ customer_feedback \subseteq customer_feedback'
  /\ churn_predictions \subseteq churn_predictions'
  /\ \A new \in customer_feedback' \ customer_feedback :
       \A old \in customer_feedback : old.id # new.id
  /\ \A new \in churn_predictions' \ churn_predictions :
       \A old \in churn_predictions : old.id # new.id

\* C20: each request answered 200 created exactly one feedback row and
\* exactly one prediction row that references it, and no step of any
\* request changes, replaces or removes a row that exists.
C20_CreatedOnceNeverUpdated ==
  []OneRowEach /\ [][RowsOnlyAdded]_vars

\* witness of C20: two requests were answered 200 and each table holds
\* two rows
C20_Witness ==
  /\ \A r \in Requests : resp[r].status = 200
  /\ Cardinality(customer_feedback) = NumRequests
  /\ Cardinality(churn_predictions) = NumRequests

\* the call of GetSentimentFromHF got a non-empty list of pairs
SentimentPairsReturned ==
  /\ fnCall.fn = "GetSentimentFromHF"
  /\ fnReturn # NoReturn
  /\ ~Blank(fnCall.text)
  /\ fnCall.token
  /\ fnCall.reply.kind = "ok" /\ fnCall.reply.valid
  /\ Len(fnCall.reply.value) > 0
  /\ Len(fnCall.reply.value[1]) > 0

\* the first position of a list of pairs that holds its highest score
FirstHighest(pairs) ==
  CHOOSE i \in 1..Len(pairs) :
    /\ \A j \in 1..Len(pairs) : pairs[j].Score <= pairs[i].Score
    /\ \A j \in 1..(i - 1) : pairs[j].Score < pairs[i].Score

\* C21 as stated: for a non-empty list of pairs GetSentimentFromHF returns
\* the label of the first pair that holds the highest score.
C21_HighestScoreLabel ==
  SentimentPairsReturned =>
    LET pairs == fnCall.reply.value[1] IN
      /\ fnReturn.err = "nil"
      /\ fnReturn.label = pairs[FirstHighest(pairs)].Label

\* C21 amended: it returns the label of the first pair that holds the
\* highest score when that score is above 0, and NEUTRAL when no pair has a
\* score above 0.
C21_HighestPositiveScoreLabel ==
  SentimentPairsReturned =>
    LET pairs == fnCall.reply.value[1]
        best == pairs[FirstHighest(pairs)]
    IN /\ fnReturn.err = "nil"
       /\ fnReturn.label = IF best.Score > 0 THEN best.Label ELSE NEUTRAL

\* witness of C21: of three pairs the second and the third share the
\* highest score under different labels and the label of the second was
\* returned
C21_Witness ==
  /\ SentimentPairsReturned
  /\ LET pairs == fnCall.reply.value[1] IN
       /\ Len(pairs) = 3
       /\ pairs[1].Score < pairs[2].Score
       /\ pairs[3].Score = pairs[2].Score
       /\ pairs[3].Label # pairs[2].Label
       /\ fnReturn.label = pairs[2].Label

SentimentLabels == {POSITIVE, NEGATIVE, NEUTRAL, UNKNOWN}

\* C22: the sentiment label GetSentimentFromHF returns, the label of every
\* feedback row and the label of every 200 response is one of POSITIVE,
\* NEGATIVE, NEUTRAL, UNKNOWN.
C22_SentimentLabelCategorical ==
  /\ (fnCall.fn = "GetSentimentFromHF" /\ fnReturn # NoReturn) =>
       fnReturn.label \in SentimentLabels
  /\ \A row \in customer_feedback : row.comment_sentiment \in SentimentLabels
  /\ \A r \in Requests :
       resp[r].status = 200 => resp[r].comment_sentiment \in SentimentLabels

\* the status and message of the first check of the request that fails,
\* <<0, "">> when the request passes all of them
FirstFailure(request) ==
  IF request.Method # "POST" THEN <<405, "Only POST method is allowed.">>
  ELSE IF ~request.JSONValid THEN <<400, "Invalid JSON request body.">>
  ELSE IF request.NLSScore = <<>> THEN <<400, "NLS score is required.">>
  ELSE IF request.NLSScore[1] < 0 \/ request.NLSScore[1] > 10
  THEN <<400, "NLS score must be between 0 and 10.">>
  ELSE <<0, "">>

\* C23: a request that got its response after a failed initialization was
\* answered 500; after a successful one it was answered with the status and
\* message of the first failing check in the order method, decoding, rating
\* presence, rating range, and with none of these when it passes them all;
\* a request that fails a check makes no enrichment, scoring or storage
\* call and inserts no row.
C23_CheckOrder ==
  \A r \in Requests :
    req[r] # NoRequest =>
      /\ (pc[r] = "done" /\ initErr # "nil") => resp[r].status = 500
      /\ (pc[r] = "done" /\ initErr = "nil") =>
           IF FirstFailure(req[r]) # <<0, "">>
           THEN <<resp[r].status, resp[r].error>> = FirstFailure(req[r])
           ELSE resp[r].status \notin {400, 405}
      /\ FirstFailure(req[r]) # <<0, "">> =>
           /\ trace[r] = <<>>
           /\ stored[r] = NothingStored
           /\ pc[r] \in {"InitClients", "initialize", "done"}

\* witness of C23: a GET request with an undecodable body was answered 405
\* and a POST request with an undecodable body, which holds no rating, was
\* answered 400 for its body
C23_Witness ==
  \E r1, r2 \in Requests :
    /\ req[r1].Method = "GET" /\ ~req[r1].JSONValid
    /\ resp[r1].status = 405
    /\ req[r2].Method = "POST" /\ ~req[r2].JSONValid /\ req[r2].NLSScore = <<>>
    /\ resp[r2].status = 400 /\ resp[r2].error = "Invalid JSON request body."

\* in every state: the calls of the two enrichment steps of a request come
\* before its feedback insert and its scoring, a request with a text that is
\* not blank has made both when it reaches the insert, a failed sentiment
\* step leaves UNKNOWN, and the feedback row and the score of the request
\* are those of the sentiment the enrichment ended with
EnrichmentBeforeUse ==
  \A r \in Requests :
    /\ \A c \in EnrichmentCalls :
         \A use \in {"StoreCustomerData", "PredictChurn"} :
           Has(trace[r], use) => (Has(trace[r], c) => Pos(trace[r], c) < Pos(trace[r], use))
    /\ (pc[r] \in {"StoreCustomerData", "PredictChurn", "StoreChurnPrediction"}
          \/ Has(trace[r], "StoreCustomerData")) =>
         /\ ~Blank(req[r].FeedbackText) => \A c \in EnrichmentCalls : Has(trace[r], c)
         /\ sentiment[r] # <<>>
         /\ errSentiment[r] = "error" => sentiment[r] = UNKNOWN
         /\ errTopics[r] = "error" => topics[r] = <<>>
    /\ \A row \in FeedbackRowOf(r) :
         row.comment_sentiment = sentiment[r] /\ row.comment_topics = topics[r]
    /\ churnPrediction[r] # NoPrediction =>
         LET p == PredictChurn([NLSScore |-> req[r].NLSScore[1],
                                Feedback |-> req[r].FeedbackText,
                                CommentSentiment |-> sentiment[r],
                                CommentTopics |-> topics[r]])
         IN /\ churnPrediction[r].ChurnProbability = p.ChurnProbability
            /\ churnPrediction[r].Reason = p.Reason

\* in every step: the sentiment of a request is set by its sentiment step
\* only and its topics by its topic step only, so neither step touches the
\* result of the other and both results are final once enrichment is over
EnrichmentResultsApart ==
  \A r \in Requests :
    /\ pc[r] # "GetSentimentFromHF" =>
         sentiment'[r] = sentiment[r] /\ errSentiment'[r] = errSentiment[r]
    /\ pc[r] # "GetTopicsFromHF" =>
         topics'[r] = topics[r] /\ errTopics'[r] = errTopics[r]

\* C24: both enrichment steps of a request are over before its scoring and
\* its feedback insert, which both use the final sentiment, and no step
\* changes the result of the other enrichment step.
C24_EnrichmentCompletesFirst ==
  []EnrichmentBeforeUse /\ [][EnrichmentResultsApart]_vars

\* witness of C24: a request whose sentiment step failed kept the topic it
\* extracted, and a request whose topic step failed was stored and scored
\* with the sentiment NEGATIVE it obtained
C24_Witness ==
  \E r1, r2 \in Requests :
    /\ resp[r1].status = 200 /\ errSentiment[r1] = "error"
    /\ resp[r1].comment_sentiment = UNKNOWN
    /\ resp[r1].comment_topics = <<"service">>
    /\ resp[r2].status = 200 /\ errTopics[r2] = "error"
    /\ resp[r2].comment_sentiment = NEGATIVE
    /\ resp[r2].churn_probability = 80
    /\ \A row \in FeedbackRowOf(r2) : row.comment_sentiment = NEGATIVE

\* the call of GetTopicsFromHF got as many scores as labels, at least one
TopicScoresReturned ==
  /\ fnCall.fn = "GetTopicsFromHF"
  /\ fnReturn # NoReturn
  /\ ~Blank(fnCall.text)
  /\ fnCall.candidates # <<>>
  /\ fnCall.token
  /\ fnCall.reply.kind = "ok" /\ fnCall.reply.valid
  /\ Len(fnCall.reply.value.Labels) > 0
  /\ Len(fnCall.reply.value.Scores) = Len(fnCall.reply.value.Labels)

\* the positions of the scores above 0.8
AboveThreshold(scores) == {i \in 1..Len(scores) : scores[i] > 80}

\* C25: the topics GetTopicsFromHF returns are the labels of the reply
\* whose score is above 0.8, all of them and no other, in the order of the
\* reply.
C25_TopicsAboveThreshold ==
  TopicScoresReturned =>
    LET labels == fnCall.reply.value.Labels
        above == AboveThreshold(fnCall.reply.value.Scores)
    IN /\ fnReturn.err = "nil"
       /\ Len(fnReturn.topics) = Cardinality(above)
       /\ \A k \in 1..Len(fnReturn.topics) :
            \E i \in above :
              /\ Cardinality({j \in above : j < i}) = k - 1
              /\ fnReturn.topics[k] = labels[i]

\* witness of C25: of three labels with scores 0.81, 0.80 and 0.81 the
\* first and the third were returned
C25_Witness ==
  /\ TopicScoresReturned
  /\ fnCall.reply.value.Scores = <<81, 80, 81>>
  /\ fnCall.reply.value.Labels = <<"pricing", "service", "refund">>
  /\ fnReturn.topics = <<"pricing", "refund">>

\* C26: every row of customer_feedback has a rating from 0 to 10 and every
\* row of churn_predictions has probability 0.1, 0.4 or 0.8.
C26_StoredValuesInRange ==
  /\ \A row \in customer_feedback : row.nls_score \in 0..10
  /\ \A p \in churn_predictions : p.churn_probability \in {10, 40, 80}

\* witness of C26: the store holds feedback rows with the ratings 0 and 10
\* and prediction rows with the probabilities 0.8 and 0.1
C26_Witness ==
  /\ \E row \in customer_feedback : row.nls_score = 0
  /\ \E row \in customer_feedback : row.nls_score = 10
  /\ \E p \in churn_predictions : p.churn_probability = 80
  /\ \E p \in churn_predictions : p.churn_probability = 10

ResponseStatuses == {200, 400, 405, 500}

\* in every step: a response that was written stays as it is
OneResponse ==
  \A r \in Requests : resp[r].status # 0 => resp'[r] = resp[r]

\* in every state: a request has a response exactly when it is over, and
\* the status of the response is 200, 400, 405 or 500
ResponseAtEnd ==
  \A r \in Requests :
    /\ pc[r] = "done" <=> resp[r].status # 0
    /\ resp[r].status # 0 => resp[r].status \in ResponseStatuses

\* C27: every request the handler has received is over in the end, with
\* one response of status 200, 400, 405 or 500 that is written once.
C27_RequestTerminates ==
  /\ <>[](\A r \in Requests : req[r] # NoRequest => pc[r] = "done")
  /\ []ResponseAtEnd
  /\ [][OneResponse]_vars

\* witness of C27: a request is over with status 500 after both of its
\* inference calls failed by a timeout or another transport error and its
\* prediction insert failed
C27_Witness ==
  \E r \in Requests :
    /\ env.HF_TOKEN
    /\ pc[r] = "done" /\ resp[r].status = 500
    /\ errSentiment[r] = "error" /\ errTopics[r] = "error"
    /\ Has(trace[r], "StoreChurnPrediction: error")

\* C28: at the end of a request its feedback row is without a prediction
\* row only when the request attempted StoreChurnPrediction and the
\* attempt failed, and a request answered "Failed to store customer data."
\* has no feedback row in the store.
C28_OrphanOnlyAfterPredictionFailure ==
  \A r \in Requests :
    pc[r] = "done" =>
      /\ \A row \in FeedbackRowOf(r) :
           (\A p \in churn_predictions : p.customer_feedback_id # row.id) =>
             Has(trace[r], "StoreChurnPrediction: error")
      /\ resp[r].error = "Failed to store customer data." => FeedbackRowOf(r) = {}

\* in every step: the guard of the handler never reopens, and once the
\* function it guards has run initErr keeps its value and no request calls
\* InitClients
InitializedOnce ==
  /\ initOnce # "fresh" => initOnce' # "fresh"
  /\ initOnce = "done" =>
       /\ initOnce' = "done"
       /\ initErr' = initErr
       /\ \A r \in Requests : pc'[r] # "InitClients"

\* in every state: after a failed initialization every request that is
\* over was answered 500 with the recorded error, and there is no handle
\* made by the handler to work with
FailurePersists ==
  (initOnce = "done" /\ initErr # "nil") =>
    \A r \in Requests :
      pc[r] = "done" =>
        /\ resp[r].status = 500
        /\ resp[r].error = "Server initialization failed: "
        /\ resp[r].detail = initErr

\* C29: the handler attempts its initialization at most once; after a
\* failure every request gets the recorded error and InitClients is not
\* called again, also when the environment has been corrected.
C29_InitializationNotRetried ==
  []FailurePersists /\ [][InitializedOnce]_vars

\* witness of C29: the environment is complete again, and every request was
\* answered with the error recorded when the variables were missing
C29_Witness ==
  /\ env = [SUPABASE_URL |-> TRUE, SUPABASE_KEY |-> TRUE, HF_TOKEN |-> TRUE]
  /\ initOnce = "done"
  /\ initErr = "SUPABASE_URL and SUPABASE_KEY environment variables must be set"
  /\ \A r \in Requests :
       /\ pc[r] = "done" /\ resp[r].status = 500
       /\ resp[r].detail = initErr

CandidateSet == {candidateTopics[i] : i \in 1..Len(candidateTopics)}

\* all elements of the sequence topics are candidate topics
AllCandidates(t) == \A i \in 1..Len(t) : t[i] \in CandidateSet

\* C30: every topic GetTopicsFromHF returns, every topic of a feedback row
\* and every topic of a 200 response is one of the six candidate topics.
C30_TopicsAreCandidates ==
  /\ (fnCall.fn = "GetTopicsFromHF" /\ fnReturn # NoReturn) =>
       AllCandidates(fnReturn.topics)
  /\ \A row \in customer_feedback : AllCandidates(row.comment_topics)
  /\ \A r \in Requests :
       resp[r].status = 200 => AllCandidates(resp[r].comment_topics)

====
